---------------------------- MODULE Spec2Model ----------------------------
(***************************************************************************)
(* Mention detection of mattermost-plugin-shoutrrr (server/mentions.go).   *)
(*                                                                         *)
(* A Go string is modelled as a sequence of characters; a character is a   *)
(* one-element TLA+ string, except the multibyte characters, which are     *)
(* named by their code point ("U+00E9") and carry their UTF-8 byte length. *)
(* A Go map is a function whose DOMAIN is the set of keys present.         *)
(***************************************************************************)
EXTENDS Integers, Sequences, FiniteSets, TLC

VARIABLES
    keywords,    \* MentionKeywords: keyword -> sequence of MentionableID
    profiles,    \* the profiles handed to AddUser so far in this pass
    groups,      \* the groups handed to AddGroup so far in this pass
    allow,       \* allowChannelMentions of this pass
    results,     \* the MentionResults accumulator of the parser
    results2,    \* a second, independent accumulator (two-scan comparison)
    pc,          \* position of the pass
    pending,     \* the text fragments of the post still to be scanned
    nops,        \* accumulator primitives applied so far
    post,        \* the post whose fields are extracted
    fields,      \* the value returned by getMentionsEnabledFields
    nodes,       \* the nodes markdown.Inspect hands to the callback, in order
    ni,          \* how many of them the callback has seen
    buf,         \* buf of getExplicitMentions
    processed,   \* the texts handed to ProcessText so far, in order
    ctx,         \* the arguments of getExplicitMentionsAndKeywords
    op           \* the operation that produced this state, with its arguments

vars == <<keywords, profiles, groups, allow, results, results2, pc, pending,
          nops, post, fields, nodes, ni, buf, processed, ctx, op>>

-----------------------------------------------------------------------------
(* Bounds of the model *)

MaxOps == 2
MaxUsers == 2
MaxAttachments == 2

-----------------------------------------------------------------------------
(* MentionType, mentions.go:16-44 *)

NoMention == 0
GMMention == 1
ThreadMention == 2
CommentMention == 3
ChannelMention == 4
DMMention == 5
KeywordMention == 6
GroupMention == 7

-----------------------------------------------------------------------------
(* Characters and strings *)

LowerLetters == <<"a","b","c","d","e","f","g","h","i","j","k","l","m",
                  "n","o","p","q","r","s","t","u","v","w","x","y","z">>
UpperLetters == <<"A","B","C","D","E","F","G","H","I","J","K","L","M",
                  "N","O","P","Q","R","S","T","U","V","W","X","Y","Z">>

\* Multibyte letters: e-acute, E-acute, u-umlaut (2 bytes), a CJK letter (3 bytes)
EAcute == "U+00E9"
EAcuteUpper == "U+00C9"
UUml == "U+00FC"
Kanji == "U+6F22"

Range(s) == {s[i] : i \in 1..Len(s)}

Last(s) == s[Len(s)]

\* utf8 encoded length of one character
CharByteLen(c) ==
    IF c \in {EAcute, EAcuteUpper, UUml} THEN 2
    ELSE IF c = Kanji THEN 3
    ELSE 1

\* unicode.IsLetter
IsLetter(c) ==
    c \in Range(LowerLetters) \cup Range(UpperLetters)
          \cup {EAcute, EAcuteUpper, UUml, Kanji}

\* unicode.IsNumber
IsNumber(c) == c \in {"0","1","2","3","4","5","6","7","8","9"}

\* unicode.ToLower on one character
ToLowerChar(c) ==
    IF c \in Range(UpperLetters)
    THEN LowerLetters[CHOOSE i \in 1..Len(UpperLetters) : UpperLetters[i] = c]
    ELSE IF c = EAcuteUpper THEN EAcute
    ELSE c

RECURSIVE ToLower(_)
\* strings.ToLower
ToLower(s) ==
    IF s = <<>> THEN <<>> ELSE <<ToLowerChar(Head(s))>> \o ToLower(Tail(s))

RECURSIVE ByteLen(_)
\* len(s): the number of bytes of the UTF-8 encoding
ByteLen(s) ==
    IF s = <<>> THEN 0 ELSE CharByteLen(Head(s)) + ByteLen(Tail(s))

\* utf8.RuneCountInString
RuneCountInString(s) == Len(s)

\* strings.HasPrefix
HasPrefix(s, p) == Len(s) >= Len(p) /\ SubSeq(s, 1, Len(p)) = p

\* strings.Contains
Contains(s, sub) ==
    \E i \in 1..(Len(s) + 1) :
        i + Len(sub) - 1 <= Len(s) /\ SubSeq(s, i, i + Len(sub) - 1) = sub

\* strings.ContainsAny
ContainsAny(s, chars) == \E i \in 1..Len(s) : s[i] \in chars

RECURSIVE TrimLeft(_, _)
\* strings.TrimLeft
TrimLeft(s, cutset) ==
    IF s # <<>> /\ Head(s) \in cutset THEN TrimLeft(Tail(s), cutset) ELSE s

RECURSIVE FieldsFrom(_, _, _, _)
FieldsFrom(s, seps, i, cur) ==
    IF i > Len(s)
    THEN IF cur = <<>> THEN <<>> ELSE <<cur>>
    ELSE IF s[i] \in seps
         THEN (IF cur = <<>> THEN <<>> ELSE <<cur>>) \o FieldsFrom(s, seps, i + 1, <<>>)
         ELSE FieldsFrom(s, seps, i + 1, Append(cur, s[i]))

RECURSIVE FieldsKeepEmpty(_, _, _, _)
\* a plausible slip: the text is cut at every separator, as strings.Split cuts it,
\* so that an empty field stands between two adjacent separators
FieldsKeepEmpty(s, seps, i, cur) ==
    IF i > Len(s) THEN <<cur>>
    ELSE IF s[i] \in seps
         THEN <<cur>> \o FieldsKeepEmpty(s, seps, i + 1, <<>>)
         ELSE FieldsKeepEmpty(s, seps, i + 1, Append(cur, s[i]))

FieldsSplit(s, seps) == FieldsKeepEmpty(s, seps, 1, <<>>)

\* strings.FieldsFunc: the maximal runs of characters outside seps
FieldsFunc(s, seps) == FieldsFrom(s, seps, 1, <<>>)

-----------------------------------------------------------------------------
(* Go maps *)

EmptyMap == [x \in {} |-> 0]

\* m[k] = v
MapSet(m, k, v) == [x \in DOMAIN m \cup {k} |-> IF x = k THEN v ELSE m[x]]

\* delete(m, k)
MapDelete(m, k) == [x \in DOMAIN m \ {k} |-> m[x]]

-----------------------------------------------------------------------------
(* MentionResults, mentions.go:46-101 *)

\* &MentionResults{} : both maps nil, no potential mentions, no flag set
NewResults ==
    [Mentions |-> EmptyMap, MentionsNil |-> TRUE,
     GroupMentions |-> EmptyMap, GroupMentionsNil |-> TRUE,
     OtherPotentialMentions |-> <<>>,
     HereMentioned |-> FALSE, AllMentioned |-> FALSE, ChannelMentioned |-> FALSE]

\* a plausible slip: the priority guard is dropped and the entry overwritten
addMentionOverwrite(m, userID, mentionType) ==
    [m EXCEPT !.MentionsNil = FALSE,
              !.Mentions = MapSet(@, userID, mentionType)]

addMention(m, userID, mentionType) ==
    IF userID \in DOMAIN m.Mentions /\ m.Mentions[userID] >= mentionType
    THEN [m EXCEPT !.MentionsNil = FALSE]
    ELSE [m EXCEPT !.MentionsNil = FALSE,
                   !.Mentions = MapSet(@, userID, mentionType)]

\* a plausible slip: only entries below Keyword priority are removed
removeMentionBelowKeyword(m, userID) ==
    IF userID \in DOMAIN m.Mentions /\ m.Mentions[userID] >= KeywordMention
    THEN m
    ELSE [m EXCEPT !.Mentions = MapDelete(@, userID)]

removeMention(m, userID) == [m EXCEPT !.Mentions = MapDelete(@, userID)]

addGroupMention(m, groupID) ==
    [m EXCEPT !.GroupMentionsNil = FALSE,
              !.GroupMentions = MapSet(@, groupID, GroupMention)]

-----------------------------------------------------------------------------
(* MentionableID, mentions.go:288-320: the ID with the prefix of its kind *)

mentionableUserPrefix == "user:"
mentionableGroupPrefix == "group:"

mentionableUserID(userID) == [prefix |-> mentionableUserPrefix, id |-> userID]

mentionableGroupID(groupID) == [prefix |-> mentionableGroupPrefix, id |-> groupID]

\* AsUserID: ok iff the ID carries the user prefix
IsUserID(id) == id.prefix = mentionableUserPrefix

\* AsGroupID: ok iff the ID carries the group prefix
IsGroupID(id) == id.prefix = mentionableGroupPrefix

-----------------------------------------------------------------------------
(* MentionKeywords, mentions.go:322-385 *)

\* make(MentionKeywords)
NoKeywords == [x \in {} |-> <<>>]

\* a plausible slip: the entry is replaced, k[keyword] = []MentionableID{id}
AppendIDReplace(k, keyword, id) == MapSet(k, keyword, <<id>>)

\* k[keyword] = append(k[keyword], id)
AppendID(k, keyword, id) ==
    MapSet(k, keyword, (IF keyword \in DOMAIN k THEN k[keyword] ELSE <<>>) \o <<id>>)

\* the empty string for a key the Go map does not hold
Prop(m, key) == IF key \in DOMAIN m THEN m[key] ELSE ""

RECURSIVE AddMentionKeys(_, _, _)
\* mentions.go:332-339: every non-empty mention key, lower-cased
AddMentionKeys(k, keys, id) ==
    IF keys = <<>> THEN k
    ELSE AddMentionKeys(
            IF Head(keys) # <<>> THEN AppendID(k, ToLower(Head(keys)), id) ELSE k,
            Tail(keys), id)

AtHere == <<"@","h","e","r","e">>
AtChannel == <<"@","c","h","a","n","n","e","l">>
AtAll == <<"@","a","l","l">>

\* a plausible slip: a muted channel ignores channel mentions whatever the
\* ignore setting is
IgnoreChannelMentionsMuted(channelNotifyProps) ==
    \/ Prop(channelNotifyProps, "ignore_channel_mentions") = "on"
    \/ Prop(channelNotifyProps, "mark_unread") = "mention"

\* mentions.go:349
IgnoreChannelMentions(channelNotifyProps) ==
    \/ Prop(channelNotifyProps, "ignore_channel_mentions") = "on"
    \/ /\ Prop(channelNotifyProps, "mark_unread") = "mention"
       /\ Prop(channelNotifyProps, "ignore_channel_mentions") = "default"

\* mentions.go:346-359
AddChannelKeywords(k, profile, channelNotifyProps, status, allowChannelMentions, id) ==
    IF /\ allowChannelMentions
       /\ Prop(profile.NotifyProps, "channel") = "true"
       /\ ~IgnoreChannelMentions(channelNotifyProps)
    THEN LET k2 == AppendID(AppendID(k, AtChannel, id), AtAll, id)
         IN  IF status # "nil" /\ status = "online"
             THEN AppendID(k2, AtHere, id)
             ELSE k2
    ELSE k

\* mentions.go:341-344
AddFirstName(k, profile, id) ==
    IF Prop(profile.NotifyProps, "first_name") = "true" /\ profile.FirstName # <<>>
    THEN AppendID(k, profile.FirstName, id)
    ELSE k

\* a plausible slip: the username is registered without its `@`
AddUserNoAt(k, profile, channelNotifyProps, status, allowChannelMentions) ==
    LET id == mentionableUserID(profile.Id)
        k1 == AppendID(k, ToLower(profile.Username), id)
        k2 == AddMentionKeys(k1, profile.MentionKeys, id)
        k3 == AddFirstName(k2, profile, id)
    IN  AddChannelKeywords(k3, profile, channelNotifyProps, status,
                           allowChannelMentions, id)

AddUser(k, profile, channelNotifyProps, status, allowChannelMentions) ==
    LET id == mentionableUserID(profile.Id)
        k1 == AppendID(k, <<"@">> \o ToLower(profile.Username), id)
        k2 == AddMentionKeys(k1, profile.MentionKeys, id)
        k3 == AddFirstName(k2, profile, id)
    IN  AddChannelKeywords(k3, profile, channelNotifyProps, status,
                           allowChannelMentions, id)

AddUserKeyword(k, userID, keyword) == AppendID(k, keyword, mentionableUserID(userID))

\* group.Name is a *string: "nil" when absent
AddGroup(k, group) ==
    IF group.Name # "nil"
    THEN AppendID(k, <<"@">> \o group.Name, mentionableGroupID(group.Id))
    ELSE k

-----------------------------------------------------------------------------
(* StandardMentionParser, mentions.go:141-286 *)

RECURSIVE addMentions(_, _, _)
addMentions(res, ids, mentionType) ==
    IF ids = <<>> THEN res
    ELSE LET id == Head(ids)
             r == IF IsUserID(id) THEN addMention(res, id.id, mentionType)
                  ELSE IF IsGroupID(id) THEN addGroupMention(res, id.id)
                  ELSE res
         IN  addMentions(r, Tail(ids), mentionType)

\* mentions.go:229-241: the broadcast flag and the mention type of a word
SetBroadcastFlag(res, word) ==
    LET lw == ToLower(word)
    IN  IF lw = AtHere THEN [res EXCEPT !.HereMentioned = TRUE]
        ELSE IF lw = AtChannel THEN [res EXCEPT !.ChannelMentioned = TRUE]
        ELSE IF lw = AtAll THEN [res EXCEPT !.AllMentioned = TRUE]
        ELSE res

MentionTypeOf(word) ==
    IF ToLower(word) \in {AtHere, AtChannel, AtAll}
    THEN ChannelMention ELSE KeywordMention

\* a plausible slip: the case-sensitive lookup is dropped
checkForMentionLowerOnly(res, kw, word) ==
    LET flagged == SetBroadcastFlag(res, word)
    IN  IF ToLower(word) \in DOMAIN kw
        THEN [res |-> addMentions(flagged, kw[ToLower(word)], MentionTypeOf(word)),
              match |-> TRUE]
        ELSE [res |-> flagged, match |-> FALSE]

\* a plausible slip: the lookup with the original casing comes first
checkForMentionOriginalFirst(res, kw, word) ==
    LET flagged == SetBroadcastFlag(res, word)
    IN  IF word \in DOMAIN kw
        THEN [res |-> addMentions(flagged, kw[word], MentionTypeOf(word)),
              match |-> TRUE]
        ELSE IF ToLower(word) \in DOMAIN kw
        THEN [res |-> addMentions(flagged, kw[ToLower(word)], MentionTypeOf(word)),
              match |-> TRUE]
        ELSE [res |-> flagged, match |-> FALSE]

\* checkForMention: the accumulator afterwards and the value returned
checkForMention(res, kw, word) ==
    LET flagged == SetBroadcastFlag(res, word)
    IN  IF ToLower(word) \in DOMAIN kw
        THEN [res |-> addMentions(flagged, kw[ToLower(word)], MentionTypeOf(word)),
              match |-> TRUE]
        ELSE IF word \in DOMAIN kw
        THEN [res |-> addMentions(flagged, kw[word], MentionTypeOf(word)),
              match |-> TRUE]
        ELSE [res |-> flagged, match |-> FALSE]

\* mentions.go:157
systemMentions == {AtHere, AtChannel, AtAll}

SuffixChars == {".", "-", ":", "_"}

\* a plausible slip: one trailing character is stripped, not every one in turn
StripSuffixOnce(res, kw, wordWithoutSuffix) ==
    IF wordWithoutSuffix # <<>> /\ Last(wordWithoutSuffix) \in SuffixChars
    THEN LET w == SubSeq(wordWithoutSuffix, 1, Len(wordWithoutSuffix) - 1)
             c == checkForMention(res, kw, w)
         IN  [res |-> c.res, found |-> c.match]
    ELSE [res |-> res, found |-> FALSE]

RECURSIVE StripSuffixLoop(_, _, _)
\* mentions.go:174-184: the accumulator afterwards and foundWithoutSuffix
StripSuffixLoop(res, kw, wordWithoutSuffix) ==
    IF wordWithoutSuffix # <<>> /\ Last(wordWithoutSuffix) \in SuffixChars
    THEN LET w == SubSeq(wordWithoutSuffix, 1, Len(wordWithoutSuffix) - 1)
             c == checkForMention(res, kw, w)
         IN  IF c.match THEN [res |-> c.res, found |-> TRUE]
             ELSE StripSuffixLoop(c.res, kw, w)
    ELSE [res |-> res, found |-> FALSE]

\* a plausible slip: the trailing character is kept
TrimSentenceEndKeep(word) == word

\* mentions.go:192-197: one trailing '.', '-' or ':' is removed
TrimSentenceEnd(word) ==
    IF Last(word) \in {".", "-", ":"} THEN SubSeq(word, 1, Len(word) - 1) ELSE word

AppendPotential(res, name) ==
    [res EXCEPT !.OtherPotentialMentions = Append(@, name)]

RECURSIVE SplitWordsLoop(_, _, _)
\* mentions.go:205-212
SplitWordsLoop(res, kw, splitWords) ==
    IF splitWords = <<>> THEN res
    ELSE LET splitWord == Head(splitWords)
             c == checkForMention(res, kw, splitWord)
             r == IF c.match THEN c.res
                  ELSE IF splitWord \notin systemMentions /\ HasPrefix(splitWord, <<"@">>)
                       THEN AppendPotential(c.res, Tail(splitWord))
                       ELSE c.res
         IN  SplitWordsLoop(r, kw, Tail(splitWords))

IsMultibyte(s) == ByteLen(s) # RuneCountInString(s)

\* isKeywordMultibyte: the keys that can be the last match of the range over the map,
\* whose iteration order Go leaves unspecified
MultibyteMatches(kw, word) ==
    IF IsMultibyte(word)
    THEN {key \in DOMAIN kw : IsMultibyte(key) /\ Contains(word, key)}
    ELSE {}

\* mentions.go:215-217: every accumulator the multibyte step can leave
MultibyteStep(res, kw, word) ==
    IF MultibyteMatches(kw, word) = {} THEN {res}
    ELSE {addMentions(res, kw[key], KeywordMention) : key \in MultibyteMatches(kw, word)}

\* a plausible slip: a word holding '.', '-' or ':' is split even when it starts
\* with '@'
UnmatchedStepSplitFirst(res, kw, word) ==
    IF ContainsAny(word, {".", "-", ":"})
    THEN [res |-> SplitWordsLoop(res, kw, FieldsFunc(word, {".", "-", ":"})),
          word |-> word]
    ELSE IF word \notin systemMentions /\ HasPrefix(word, <<"@">>)
    THEN [res |-> AppendPotential(res, Tail(TrimSentenceEnd(word))),
          word |-> TrimSentenceEnd(word)]
    ELSE [res |-> res, word |-> word]

\* mentions.go:190-213: the accumulator and the word after the unmatched branches
UnmatchedStep(res, kw, word) ==
    IF word \notin systemMentions /\ HasPrefix(word, <<"@">>)
    THEN [res |-> AppendPotential(res, Tail(TrimSentenceEnd(word))),
          word |-> TrimSentenceEnd(word)]
    ELSE IF ContainsAny(word, {".", "-", ":"})
    THEN [res |-> SplitWordsLoop(res, kw, FieldsFunc(word, {".", "-", ":"})),
          word |-> word]
    ELSE [res |-> res, word |-> word]

\* mentions.go:163-166
IsEmojiWord(word) == word[1] = ":" /\ Last(word) = ":"

\* one iteration of the loop of ProcessText: every accumulator it can leave
ProcessWord(res, kw, token) ==
    IF IsEmojiWord(token) THEN {res}
    ELSE LET word == TrimLeft(token, {":", ".", "-", "_"})
             c == checkForMention(res, kw, word)
             s == StripSuffixLoop(c.res, kw, word)
             u == UnmatchedStep(s.res, kw, word)
         IN  IF c.match THEN {c.res}
             ELSE IF s.found THEN {s.res}
             ELSE MultibyteStep(u.res, kw, u.word)

RECURSIVE ProcessWords(_, _, _)
ProcessWords(rs, kw, words) ==
    IF words = <<>> THEN rs
    ELSE ProcessWords(UNION {ProcessWord(r, kw, Head(words)) : r \in rs},
                      kw, Tail(words))

\* mentions.go:161: the characters a token is made of
IsMentionChar(c) ==
    c \in {":", ".", "-", "_", "@"} \/ IsLetter(c) \/ IsNumber(c)

\* ProcessText: every accumulator the scan of text can leave
ProcessText(res, kw, text) ==
    ProcessWords({res}, kw,
                 FieldsFunc(text, {c \in Range(text) : ~IsMentionChar(c)}))

\* Go's bounds check of s[i], i counted from 0
IndexInRange(s, i) == 0 <= i /\ i < Len(s)

\* Go's bounds check of s[i:], i counted from 0
SliceInRange(s, i) == 0 <= i /\ i <= Len(s)

\* the index and slice expressions a token meets in the loop of ProcessText
\* (mentions.go:164, 192, 198, 210): TRUE when one of them is out of range
TokenPanics(kw, token) ==
    IF ~IndexInRange(token, 0) \/ ~IndexInRange(token, Len(token) - 1) THEN TRUE
    ELSE IF IsEmojiWord(token) THEN FALSE
    ELSE LET word == TrimLeft(token, {":", ".", "-", "_"})
             c == checkForMention(NewResults, kw, word)
             s == StripSuffixLoop(NewResults, kw, word)
             splitWords == FieldsFunc(word, {".", "-", ":"})
         IN  IF c.match \/ s.found THEN FALSE
             ELSE IF word \notin systemMentions /\ HasPrefix(word, <<"@">>)
             THEN \/ ~IndexInRange(word, Len(word) - 1)
                  \/ ~SliceInRange(TrimSentenceEnd(word), 1)
             ELSE IF ContainsAny(word, {".", "-", ":"})
             THEN \E i \in 1..Len(splitWords) :
                     /\ ~checkForMention(NewResults, kw, splitWords[i]).match
                     /\ splitWords[i] \notin systemMentions
                     /\ HasPrefix(splitWords[i], <<"@">>)
                     /\ ~SliceInRange(splitWords[i], 1)
             ELSE FALSE

\* TRUE when ProcessText(text) ends in a runtime error instead of returning
ProcessTextPanics(kw, text) ==
    LET words == FieldsFunc(text, {c \in Range(text) : ~IsMentionChar(c)})
    IN  \E i \in 1..Len(words) : TokenPanics(kw, words[i])

-----------------------------------------------------------------------------
(* getMentionsEnabledFields, mentions.go:394-413 *)

\* field.Value.(string): ok iff the dynamic type of the value is string
IsString(value) == value.type = "string"

RECURSIVE FieldValues(_)
\* mentions.go:406-410
FieldValues(attachmentFields) ==
    IF attachmentFields = <<>> THEN <<>>
    ELSE LET value == Head(attachmentFields).Value
         IN  (IF IsString(value) /\ value.v # <<>> THEN <<value.v>> ELSE <<>>)
             \o FieldValues(Tail(attachmentFields))

\* a plausible slip: the type assertion is dropped
AttachmentValuesUntyped(attachment) ==
    (IF attachment.Pretext # <<>> THEN <<attachment.Pretext>> ELSE <<>>)
    \o (IF attachment.Text # <<>> THEN <<attachment.Text>> ELSE <<>>)
    \o [i \in 1..Len(attachment.Fields) |-> attachment.Fields[i].Value.v]

\* mentions.go:399-410
AttachmentValues(attachment) ==
    (IF attachment.Pretext # <<>> THEN <<attachment.Pretext>> ELSE <<>>)
    \o (IF attachment.Text # <<>> THEN <<attachment.Text>> ELSE <<>>)
    \o FieldValues(attachment.Fields)

RECURSIVE AttachmentsValues(_)
AttachmentsValues(attachments) ==
    IF attachments = <<>> THEN <<>>
    ELSE AttachmentValues(Head(attachments)) \o AttachmentsValues(Tail(attachments))

getMentionsEnabledFields(p) == <<p.Message>> \o AttachmentsValues(p.Attachments)

-----------------------------------------------------------------------------
(* Inputs *)

S_bob == <<"b","o","b">>
S_carol == <<"c","a","r","o","l">>
S_alice == <<"a","l","i","c","e">>
S_Bob == <<"B","o","b">>
S_devs == <<"d","e","v","s">>
S_zed == <<"z","e","d">>
S_yan == <<"y","a","n">>
S_Here == <<"H","e","r","e">>
S_here == <<"h","e","r","e">>
S_bobDotAnd == <<"b","o","b",".","a","n","d">>
S_unknownuser == <<"u","n","k","n","o","w","n","u","s","e","r">>
K_e == <<"U+00E9">>
K_u == <<"U+00FC">>
T_here == <<"@","h","e","r","e">>
T_Here == <<"@","H","e","r","e">>
T_HERE == <<"@","H","E","R","E">>
T_hereDot == <<"@","h","e","r","e",".">>
T_channel == <<"@","c","h","a","n","n","e","l">>
T_Channel == <<"@","C","h","a","n","n","e","l">>
T_all == <<"@","a","l","l">>
T_ALL == <<"@","A","L","L">>
T_allHereChannel == <<"@","a","l","l"," ","@","h","e","r","e"," ","@","c","h","a","n","n","e","l">>
T_ping == <<"p","i","n","g"," ","@","b","o","b",".","a","n","d"," ","@","c","a","r","o","l","-">>
T_smile == <<":","s","m","i","l","e",":">>
T_emojiBob == <<":","b","o","b",":">>
T_emojiAtBob == <<":","@","b","o","b",":">>
T_emojiAtZed == <<":","@","z","e","d",":">>
T_emojiParen == <<"(",":","b","o","b",":",")">>
T_emojiBang == <<"h","i"," ",":","b","o","b",":","!">>
T_emojiDot == <<":","b","o","b",":",".">>
T_emojiDash == <<"-",":","b","o","b",":">>
T_emojiAtZedDot == <<":","@","z","e","d",":",".">>
T_emojiHere == <<":","@","h","e","r","e",":">>
T_helloAlice == <<"h","e","l","l","o"," ","@","a","l","i","c","e","!">>
T_helloBob == <<"h","e","l","l","o"," ","@","b","o","b","!">>
T_helloCarol == <<"h","e","l","l","o"," ","@","c","a","r","o","l","!">>
T_unknown == <<"@","u","n","k","n","o","w","n","u","s","e","r"," ","p","l","e","a","s","e"," ","s","e","e"," ","t","h","i","s">>
T_zed == <<"@","z","e","d">>
T_zedDot == <<"@","z","e","d",".">>
T_zedDotDot == <<"@","z","e","d",".",".">>
T_zedColon == <<"@","z","e","d",":">>
T_zedUnder == <<"@","z","e","d","_">>
T_zedTwice == <<"@","z","e","d"," ","@","z","e","d">>
T_yanZed == <<"@","y","a","n",","," ","@","z","e","d">>
T_zedE == <<"@","z","e","d","U+00E9">>
T_nameBob == <<"B","o","b">>
T_namebob == <<"b","o","b">>
T_nameBOB == <<"B","O","B">>
T_namebOb == <<"b","O","b">>
T_hiBob == <<"h","i"," ","B","o","b",".">>
T_eu == <<"U+00E9","U+00FC">>
T_xeu == <<"x","U+00E9"," ","U+00FC","x">>
T_carolDots == <<"@","c","a","r","o","l",".",".",".">>
T_carolUnderColon == <<"@","c","a","r","o","l","_",":">>
T_devs == <<"@","d","e","v","s">>
T_at == <<"@">>
T_atDot == <<"@",".">>
T_dots == <<".","_","-">>
T_aDotZed == <<"a",".","@","z","e","d">>
T_empty == <<>>
T_colon == <<":">>
T_atColon == <<"@",":">>
T_punct == <<":",".","-","_","@">>
T_carolDash == <<"@","c","a","r","o","l","-">>
T_Eu == <<"U+00C9","U+00FC">>
K_eu == <<"U+00E9","U+00FC">>

Texts ==
    {T_here, T_Here, T_HERE, T_hereDot, T_channel, T_Channel, T_all, T_ALL,
     T_allHereChannel, T_ping, T_smile, T_emojiBob, T_emojiAtBob, T_emojiAtZed,
     T_emojiParen, T_emojiBang, T_emojiDot, T_emojiDash, T_emojiAtZedDot,
     T_emojiHere, T_helloAlice, T_helloBob, T_helloCarol, T_unknown, T_zed,
     T_zedDot, T_zedDotDot, T_zedColon, T_zedUnder, T_zedTwice, T_yanZed,
     T_zedE, T_nameBob, T_namebob, T_nameBOB, T_namebOb, T_hiBob, T_eu, T_xeu,
     T_carolDots, T_carolUnderColon, T_devs, T_at, T_atDot, T_dots, T_aDotZed,
     T_colon, T_atColon, T_punct, T_carolDash, T_Eu}

\* the text fragments of one post, in the order they are scanned
Documents ==
    {<<t>> : t \in Texts}
    \cup {<<T_zed, T_yanZed>>, <<T_yanZed, T_zedDot>>, <<T_helloBob, T_here>>,
          <<T_ALL, T_hiBob>>, <<T_zedE, T_emojiDot>>}

NotifyProps(firstName, channel) == [first_name |-> firstName, channel |-> channel]

User(id, username, firstName, props, mentionKeys) ==
    [Id |-> id, Username |-> username, FirstName |-> firstName,
     NotifyProps |-> props, MentionKeys |-> mentionKeys]

NoProps == [x \in {} |-> ""]

\* channel members: the profile, the member's channel notify props and the status
Members ==
    {[profile |-> User("bob", S_bob, S_Bob, NotifyProps("true", "true"), <<>>),
      channelNotifyProps |-> NoProps, status |-> "online"],
     [profile |-> User("bob", S_bob, S_Bob, NotifyProps("false", "false"), <<>>),
      channelNotifyProps |-> NoProps, status |-> "away"],
     [profile |-> User("carol", S_carol, <<>>, NotifyProps("true", "true"), <<K_eu>>),
      channelNotifyProps |-> [ignore_channel_mentions |-> "on"], status |-> "online"],
     [profile |-> User("carol", S_carol, <<>>, NotifyProps("false", "true"), <<S_Bob, K_e>>),
      channelNotifyProps |-> [ignore_channel_mentions |-> "off", mark_unread |-> "mention"],
      status |-> "away"],
     [profile |-> User("alice", S_alice, <<>>, NotifyProps("false", "false"), <<>>),
      channelNotifyProps |-> NoProps, status |-> "nil"],
     [profile |-> User("alice", S_alice, <<>>, NotifyProps("false", "true"), <<K_u>>),
      channelNotifyProps |-> [ignore_channel_mentions |-> "default", mark_unread |-> "all"],
      status |-> "nil"]}

UserIDs == {m.profile.Id : m \in Members}

Group(id, name) == [Id |-> id, Name |-> name]

\* the groups map handed to AddGroupsMap, as the sequences its range can visit
GroupLists ==
    {<<>>, <<Group("g1", S_devs)>>, <<Group("g2", "nil")>>, <<Group("g3", <<>>)>>,
     <<Group("g1", S_devs), Group("g2", "nil")>>,
     <<Group("g2", "nil"), Group("g1", S_devs)>>}

RECURSIVE AddGroupsMap(_, _)
\* mentions.go:379-385
AddGroupsMap(k, groupList) ==
    IF groupList = <<>> THEN k
    ELSE AddGroupsMap(AddGroup(k, Head(groupList)), Tail(groupList))

S_42 == <<"4","2">>
S_7 == <<"7">>

StringValue(str) == [type |-> "string", v |-> str]

\* a JSON number, held with its decimal text
NumberValue(digits) == [type |-> "number", v |-> digits]

NilValue == [type |-> "nil", v |-> <<>>]

Field(value) == [Value |-> value]

Attachment(pretext, text, attachmentFields) ==
    [Pretext |-> pretext, Text |-> text, Fields |-> attachmentFields]

AttachmentSet ==
    {Attachment(<<>>, <<>>, <<>>),
     Attachment(T_zed, <<>>, <<Field(StringValue(T_here)), Field(NumberValue(S_42))>>),
     Attachment(<<>>, T_hiBob, <<Field(StringValue(<<>>)), Field(StringValue(T_devs))>>),
     Attachment(T_at, T_all, <<Field(NilValue)>>),
     Attachment(<<>>, <<>>, <<Field(NumberValue(S_7)), Field(StringValue(T_zedDot)),
                              Field(StringValue(T_yanZed))>>)}

RECURSIVE SeqsUpTo(_, _)
\* the sequences over S of length at most n
SeqsUpTo(S, n) ==
    IF n = 0 THEN {<<>>}
    ELSE SeqsUpTo(S, n - 1)
         \cup {Append(q, x) : q \in SeqsUpTo(S, n - 1), x \in S}

Posts ==
    {[Message |-> m, Attachments |-> as] :
        m \in {<<>>, T_helloBob}, as \in SeqsUpTo(AttachmentSet, MaxAttachments)}

NoPost == [Message |-> <<>>, Attachments |-> <<>>]

\* no call of getExplicitMentionsAndKeywords is under way
NoContext == <<>>

\* the keyword index of a channel with two members and one group, as
\* getMentionKeywordsInChannel builds it
SampleKeywords ==
    AddGroupsMap(
        AddUser(
            AddUser(NoKeywords,
                    User("bob", S_bob, S_Bob, NotifyProps("true", "true"), <<>>),
                    NoProps, "online", TRUE),
            User("carol", S_carol, <<>>, NotifyProps("true", "true"), <<>>),
            NoProps, "away", TRUE),
        <<Group("g1", S_devs)>>)

\* the accumulators getExplicitMentions can hand to the enrichment rules
ScannedResults ==
    {NewResults}
    \cup UNION {ProcessText(NewResults, SampleKeywords, t) :
                    t \in {T_ping, T_allHereChannel, T_devs, T_zedTwice, T_hiBob}}

\* the mention types the callers of addMention pass
RecordedTypes ==
    {GMMention, ThreadMention, CommentMention, ChannelMention, DMMention,
     KeywordMention}

-----------------------------------------------------------------------------
(* The detection pass: getMentionKeywordsInChannel, then getExplicitMentions *)

Init ==
    /\ keywords = NoKeywords
    /\ profiles = <<>>
    /\ groups = <<>>
    /\ allow \in BOOLEAN
    /\ results = NewResults
    /\ results2 = NewResults
    /\ pc = "users"
    /\ pending = <<>>
    /\ nops = 0
    /\ post = NoPost
    /\ fields = <<>>
    /\ nodes = <<>>
    /\ ni = 0
    /\ buf = <<>>
    /\ processed = <<>>
    /\ ctx = NoContext
    /\ op = [name |-> "init"]

\* part_001:119-127: one iteration of the loop over the profiles
AddUserStep ==
    /\ pc = "users"
    /\ Len(profiles) < MaxUsers
    /\ \E m \in Members :
        /\ \A i \in 1..Len(profiles) : profiles[i].profile.Id # m.profile.Id
        /\ keywords' = AddUser(keywords, m.profile, m.channelNotifyProps,
                               m.status, allow)
        /\ profiles' = Append(profiles, m)
        /\ op' = [name |-> "AddUser", arg |-> m]
    /\ UNCHANGED <<groups, allow, results, results2, pc, pending, nops, post, fields>>
    /\ UNCHANGED <<nodes, ni, buf, processed, ctx>>

\* part_001:129
AddGroupsMapStep ==
    /\ pc = "users"
    /\ \E groupList \in GroupLists :
        /\ keywords' = AddGroupsMap(keywords, groupList)
        /\ groups' = groupList
        /\ op' = [name |-> "AddGroupsMap", arg |-> groupList]
    /\ pc' = "parser"
    /\ UNCHANGED <<profiles, allow, results, results2, pending, nops, post, fields>>
    /\ UNCHANGED <<nodes, ni, buf, processed, ctx>>

\* mentions.go:106-109: a fresh parser and the fragments of the post
MakeParserStep ==
    /\ pc = "parser"
    /\ \E doc \in Documents :
        /\ pending' = doc
        /\ op' = [name |-> "makeStandardMentionParser", arg |-> doc]
    /\ results' = NewResults
    /\ pc' = "scan"
    /\ UNCHANGED <<keywords, profiles, groups, allow, results2, nops, post, fields>>
    /\ UNCHANGED <<nodes, ni, buf, processed, ctx>>

\* mentions.go:117,132: parser.ProcessText on the next fragment
ProcessTextStep ==
    /\ pc = "scan"
    /\ pending # <<>>
    /\ results' \in ProcessText(results, keywords, Head(pending))
    /\ pending' = Tail(pending)
    /\ op' = [name |-> "ProcessText",
              arg |-> [text |-> Head(pending),
                       first |-> (op.name = "makeStandardMentionParser")]]
    /\ UNCHANGED <<keywords, profiles, groups, allow, results2, pc, nops, post, fields>>
    /\ UNCHANGED <<nodes, ni, buf, processed, ctx>>

Next == AddUserStep \/ AddGroupsMapStep \/ MakeParserStep \/ ProcessTextStep

Spec == Init /\ [][Next]_vars

-----------------------------------------------------------------------------
(* Two scans of one fragment with one index into two fresh accumulators *)

ScanTwiceStep ==
    /\ pc = "parser"
    /\ \E text \in Texts \cup {T_empty} :
        LET panic == ProcessTextPanics(keywords, text)
        IN  /\ results' \in IF panic THEN {NewResults}
                             ELSE ProcessText(NewResults, keywords, text)
            /\ results2' \in IF panic THEN {NewResults}
                              ELSE ProcessText(NewResults, keywords, text)
            /\ op' = [name |-> "ScanTwice",
                      arg |-> [text |-> text, panic |-> panic]]
    /\ pc' = "scanned"
    /\ UNCHANGED <<keywords, profiles, groups, allow, pending, nops, post, fields>>
    /\ UNCHANGED <<nodes, ni, buf, processed, ctx>>

NextTwice == AddUserStep \/ AddGroupsMapStep \/ ScanTwiceStep

SpecTwice == Init /\ [][NextTwice]_vars

-----------------------------------------------------------------------------
(* The enrichment stage: addMention and removeMention on a scanned accumulator *)

InitAcc ==
    /\ keywords = SampleKeywords
    /\ profiles = <<>>
    /\ groups = <<>>
    /\ allow = TRUE
    /\ results \in ScannedResults
    /\ results2 = NewResults
    /\ pc = "enrich"
    /\ pending = <<>>
    /\ nops = 0
    /\ post = NoPost
    /\ fields = <<>>
    /\ nodes = <<>>
    /\ ni = 0
    /\ buf = <<>>
    /\ processed = <<>>
    /\ ctx = NoContext
    /\ op = [name |-> "init"]

AddMentionStep ==
    /\ pc = "enrich"
    /\ nops < MaxOps
    /\ \E userID \in UserIDs, mentionType \in RecordedTypes :
        /\ results' = addMention(results, userID, mentionType)
        /\ op' = [name |-> "addMention",
                  arg |-> [userID |-> userID, mentionType |-> mentionType]]
    /\ nops' = nops + 1
    /\ UNCHANGED <<keywords, profiles, groups, allow, results2, pc, pending, post, fields>>
    /\ UNCHANGED <<nodes, ni, buf, processed, ctx>>

RemoveMentionStep ==
    /\ pc = "enrich"
    /\ nops < MaxOps
    /\ \E userID \in UserIDs :
        /\ results' = removeMention(results, userID)
        /\ op' = [name |-> "removeMention", arg |-> [userID |-> userID]]
    /\ nops' = nops + 1
    /\ UNCHANGED <<keywords, profiles, groups, allow, results2, pc, pending, post, fields>>
    /\ UNCHANGED <<nodes, ni, buf, processed, ctx>>

NextAcc == AddMentionStep \/ RemoveMentionStep

SpecAcc == InitAcc /\ [][NextAcc]_vars

-----------------------------------------------------------------------------
(* The fragments of a post *)

InitFields ==
    /\ keywords = NoKeywords
    /\ profiles = <<>>
    /\ groups = <<>>
    /\ allow = FALSE
    /\ results = NewResults
    /\ results2 = NewResults
    /\ pc = "fields"
    /\ pending = <<>>
    /\ nops = 0
    /\ post \in Posts
    /\ fields = <<>>
    /\ nodes = <<>>
    /\ ni = 0
    /\ buf = <<>>
    /\ processed = <<>>
    /\ ctx = NoContext
    /\ op = [name |-> "init"]

GetFieldsStep ==
    /\ pc = "fields"
    /\ fields' = getMentionsEnabledFields(post)
    /\ pc' = "fieldsDone"
    /\ op' = [name |-> "getMentionsEnabledFields"]
    /\ UNCHANGED <<keywords, profiles, groups, allow, results, results2, pending, nops, post>>
    /\ UNCHANGED <<nodes, ni, buf, processed, ctx>>

NextFields == GetFieldsStep

SpecFields == InitFields /\ [][NextFields]_vars

-----------------------------------------------------------------------------
(* Properties *)

S_zedDot == <<"z","e","d",".">>
S_zedUnder == <<"z","e","d","_">>
S_zedE == <<"z","e","d","U+00E9">>
S_hello == <<"h","e","l","l","o"," ">>
S_AtBob == <<"@","b","o","b">>
S_AtCarol == <<"@","c","a","r","o","l">>
S_AtBobDotAnd == <<"@","b","o","b",".","a","n","d">>

HasMention(res, userID) == userID \in DOMAIN res.Mentions

SameFlags(a, b) ==
    /\ a.HereMentioned = b.HereMentioned
    /\ a.ChannelMentioned = b.ChannelMentioned
    /\ a.AllMentioned = b.AllMentioned

\* C1: between two removals of a user the type stored for the user never
\* decreases, and addMention(U, t) leaves max(stored type, t) stored for U.
C1_PriorityMonotonic ==
    [][/\ \A u \in DOMAIN results.Mentions :
            ~(op'.name = "removeMention" /\ op'.arg.userID = u)
                => /\ HasMention(results', u)
                   /\ results'.Mentions[u] >= results.Mentions[u]
       /\ op'.name = "addMention" =>
            LET u == op'.arg.userID
                t == op'.arg.mentionType
            IN  /\ HasMention(results', u)
                /\ results'.Mentions[u] =
                     IF HasMention(results, u) /\ results.Mentions[u] >= t
                     THEN results.Mentions[u] ELSE t]_vars

\* C1 witness: addMention was called with a type below the one stored, which stays
C1_Witness ==
    /\ op.name = "addMention"
    /\ HasMention(results, op.arg.userID)
    /\ results.Mentions[op.arg.userID] > op.arg.mentionType

\* C6: removeMention(U) leaves no Mentions entry for U and changes no other
\* user's entry, no GroupMentions entry, no flag and no potential mention.
C6_RemoveMentionFrame ==
    [][op'.name = "removeMention" =>
        /\ ~HasMention(results', op'.arg.userID)
        /\ DOMAIN results'.Mentions = DOMAIN results.Mentions \ {op'.arg.userID}
        /\ \A v \in DOMAIN results'.Mentions :
                results'.Mentions[v] = results.Mentions[v]
        /\ results'.GroupMentions = results.GroupMentions
        /\ results'.OtherPotentialMentions = results.OtherPotentialMentions
        /\ SameFlags(results', results)]_vars

\* C6 witness: carol's Keyword entry of the scan was removed; bob's GM entry and
\* the potential mention of the scan are still there
C6_Witness ==
    /\ op.name = "removeMention"
    /\ op.arg.userID = "carol"
    /\ results.Mentions = [u \in {"bob"} |-> GMMention]
    /\ results.OtherPotentialMentions = <<S_bobDotAnd>>

\* C6 witness of the nil map: removeMention on an accumulator whose Mentions map
\* was never allocated
C6_WitnessNil == op.name = "removeMention" /\ results.MentionsNil

\* the ProcessText step taken is the scan of text
Scanned(text) == op'.name = "ProcessText" /\ op'.arg.text = text

\* the ProcessText step taken is the first call on the fresh parser
FirstScan == op'.name = "ProcessText" /\ op'.arg.first

\* C2: a text that is `@here`, `@channel` or `@all` in any letter case sets its
\* own broadcast flag, changes no other flag and appends nothing to
\* OtherPotentialMentions, whatever the keyword index holds.
C2_BroadcastOwnFlagOnly ==
    [][(op'.name = "ProcessText" /\ ToLower(op'.arg.text) \in systemMentions) =>
        LET w == ToLower(op'.arg.text)
        IN  /\ results'.HereMentioned = (results.HereMentioned \/ w = AtHere)
            /\ results'.ChannelMentioned = (results.ChannelMentioned \/ w = AtChannel)
            /\ results'.AllMentioned = (results.AllMentioned \/ w = AtAll)
            /\ results'.OtherPotentialMentions = results.OtherPotentialMentions]_vars

\* the index maps `@bob` to user bob and `@carol` to user carol
BobAndCarolIndexed ==
    /\ S_AtBob \in DOMAIN keywords
    /\ keywords[S_AtBob] = <<mentionableUserID("bob")>>
    /\ S_AtCarol \in DOMAIN keywords
    /\ keywords[S_AtCarol] = <<mentionableUserID("carol")>>

\* C3 as stated: scanning `ping @bob.and @carol-` with `@bob` and `@carol`
\* indexed yields a Keyword mention for both bob and carol.
C3_PingMentionsBoth ==
    [][(Scanned(T_ping) /\ BobAndCarolIndexed) =>
        /\ HasMention(results', "bob") /\ results'.Mentions["bob"] = KeywordMention
        /\ HasMention(results', "carol") /\ results'.Mentions["carol"] = KeywordMention]_vars

\* C3 amended: scanning `ping @bob.and @carol-` into a fresh accumulator with
\* `@bob` and `@carol` indexed (and no keyword `@bob.and`) yields a Keyword
\* mention for carol only; bob gets no entry and `bob.and` becomes the one
\* potential mention.
C3_PingMentionsCarolOnly ==
    [][(Scanned(T_ping) /\ FirstScan /\ BobAndCarolIndexed
            /\ S_AtBobDotAnd \notin DOMAIN keywords) =>
        /\ results'.Mentions = [u \in {"carol"} |-> KeywordMention]
        /\ results'.OtherPotentialMentions = <<S_bobDotAnd>>]_vars

\* C3 witness: the scan of `ping @bob.and @carol-` with both indexed has run
C3_Witness ==
    /\ op.name = "ProcessText" /\ op.arg.text = T_ping /\ op.arg.first
    /\ BobAndCarolIndexed
    /\ HasMention(results, "carol") /\ ~HasMention(results, "bob")

\* texts whose one mention-shaped token is an emoji shortcode `:word:`
EmojiTexts ==
    {T_smile, T_emojiBob, T_emojiAtBob, T_emojiAtZed, T_emojiHere, T_emojiParen,
     T_emojiBang, T_emojiDot, T_emojiDash, T_emojiAtZedDot}

\* C4: the scan of a text whose only mention candidate is an emoji shortcode
\* `:word:`, whatever punctuation surrounds it, leaves the accumulator as it was.
C4_EmojiNeverContributes ==
    [][(op'.name = "ProcessText" /\ op'.arg.text \in EmojiTexts) =>
        results' = results]_vars

\* C5: two scans of one fragment with one index into two fresh accumulators
\* leave identical accumulators.
C5_ScanTwiceIdentical == op.name = "ScanTwice" => results = results2

\* the profile registers nothing but `@username`
UsernameOnly(m) ==
    /\ m.profile.MentionKeys = <<>>
    /\ ~(Prop(m.profile.NotifyProps, "first_name") = "true" /\ m.profile.FirstName # <<>>)

\* C7: with an index built from one user with username u and no other alias,
\* the scan of `hello @u!` into a fresh accumulator yields exactly one Mentions
\* entry, for that user, at Keyword type, and no potential mention.
C7_SingleUserRoundTrip ==
    [][(FirstScan /\ Len(profiles) = 1 /\ groups = <<>> /\ UsernameOnly(profiles[1])
            /\ op'.arg.text = S_hello \o <<"@">> \o profiles[1].profile.Username \o <<"!">>) =>
        /\ results'.Mentions = [u \in {profiles[1].profile.Id} |-> KeywordMention]
        /\ results'.OtherPotentialMentions = <<>>]_vars

\* C7 witness: `hello @alice!` was scanned with the index of the one user alice
C7_Witness ==
    /\ op.name = "ProcessText" /\ op.arg.text = T_helloAlice /\ op.arg.first
    /\ Len(profiles) = 1 /\ groups = <<>> /\ UsernameOnly(profiles[1])
    /\ profiles[1].profile.Username = S_alice
    /\ results.Mentions = [u \in {"alice"} |-> KeywordMention]

\* texts made of `@`-tokens no index of the model holds a keyword for, with the
\* potential mentions the claim expects of each
UnknownTexts ==
    {T_unknown, T_zed, T_zedDot, T_zedDotDot, T_zedColon, T_zedUnder, T_zedTwice,
     T_yanZed, T_zedE}

ExpectedPotential(text) ==
    CASE text = T_unknown -> <<S_unknownuser>>
      [] text = T_zed -> <<S_zed>>
      [] text = T_zedDot -> <<S_zed>>
      [] text = T_zedDotDot -> <<S_zedDot>>
      [] text = T_zedColon -> <<S_zed>>
      [] text = T_zedUnder -> <<S_zedUnder>>
      [] text = T_zedTwice -> <<S_zed, S_zed>>
      [] text = T_yanZed -> <<S_yan, S_zed>>
      [] text = T_zedE -> <<S_zedE>>

\* C8 as stated: every unmatched `@`-token is appended, in order and with
\* duplicates, without its `@` and with at most one trailing `.`, `-` or `:`
\* removed, and adds no Mentions entry.
C8_UnmatchedAtToken ==
    [][(op'.name = "ProcessText" /\ op'.arg.text \in UnknownTexts) =>
        /\ results'.OtherPotentialMentions =
                results.OtherPotentialMentions \o ExpectedPotential(op'.arg.text)
        /\ results'.Mentions = results.Mentions]_vars

\* a multibyte keyword of the index is a substring of the text
HoldsMultibyteKeyword(text) ==
    \E key \in DOMAIN keywords : IsMultibyte(key) /\ Contains(text, key)

\* C8 amended: every unmatched `@`-token is appended, in order and with
\* duplicates, without its `@` and with at most one trailing `.`, `-` or `:`
\* removed; it adds no Mentions entry unless it contains a multibyte keyword of
\* the index, whose users are then recorded at Keyword type.
C8_UnmatchedAtTokenUnlessMultibyte ==
    [][(op'.name = "ProcessText" /\ op'.arg.text \in UnknownTexts) =>
        /\ results'.OtherPotentialMentions =
                results.OtherPotentialMentions \o ExpectedPotential(op'.arg.text)
        /\ ~HoldsMultibyteKeyword(op'.arg.text) => results'.Mentions = results.Mentions
        /\ \A u \in DOMAIN results'.Mentions :
                \/ HasMention(results, u) /\ results'.Mentions[u] = results.Mentions[u]
                \/ /\ results'.Mentions[u] = KeywordMention
                   /\ \E key \in DOMAIN keywords :
                        /\ IsMultibyte(key) /\ Contains(op'.arg.text, key)
                        /\ mentionableUserID(u) \in Range(keywords[key])]_vars

\* C8 witness: the second fragment `@yan, @zed` was scanned after `@zed`
C8_Witness ==
    /\ op.name = "ProcessText" /\ op.arg.text = T_yanZed /\ ~op.arg.first
    /\ results.OtherPotentialMentions = <<S_zed, S_yan, S_zed>>
    /\ results.Mentions = EmptyMap

\* member m registers its first name case-sensitively
FirstNameRegistered(m) ==
    Prop(m.profile.NotifyProps, "first_name") = "true" /\ m.profile.FirstName # <<>>

\* C9: a token that equals a registered first name up to letter case mentions
\* its user (at Keyword type) iff it has exactly the registered casing, as long
\* as the lower-cased form is not itself a keyword.
C9_FirstNameCaseSensitive ==
    [][FirstScan =>
        \A i \in 1..Len(profiles) :
            (/\ FirstNameRegistered(profiles[i])
             /\ ToLower(op'.arg.text) = ToLower(profiles[i].profile.FirstName)
             /\ ToLower(op'.arg.text) \notin DOMAIN keywords) =>
                /\ HasMention(results', profiles[i].profile.Id)
                        <=> op'.arg.text = profiles[i].profile.FirstName
                /\ op'.arg.text = profiles[i].profile.FirstName =>
                        results'.Mentions[profiles[i].profile.Id] = KeywordMention]_vars

\* C9 witness: `Bob` was scanned with the first name `Bob` registered and `bob`
\* not a keyword
C9_Witness ==
    /\ op.name = "ProcessText" /\ op.arg.text = T_nameBob /\ op.arg.first
    /\ \E i \in 1..Len(profiles) :
            FirstNameRegistered(profiles[i]) /\ profiles[i].profile.FirstName = S_Bob
    /\ S_bob \notin DOMAIN keywords
    /\ HasMention(results, "bob")

\* the candidate values of one attachment, in order: pretext, text, field values
Slots(attachment) ==
    <<StringValue(attachment.Pretext), StringValue(attachment.Text)>>
    \o [i \in 1..Len(attachment.Fields) |-> attachment.Fields[i].Value]

RECURSIVE AllSlots(_)
AllSlots(attachments) ==
    IF attachments = <<>> THEN <<>>
    ELSE Slots(Head(attachments)) \o AllSlots(Tail(attachments))

NonEmptyString(value) == value.type = "string" /\ value.v # <<>>

\* the fragments the claim describes for the post
ExpectedFields ==
    LET kept == SelectSeq(AllSlots(post.Attachments), NonEmptyString)
    IN  <<post.Message>> \o [i \in 1..Len(kept) |-> kept[i].v]

\* the candidate values of the post that are not non-empty strings
SkippedValues ==
    {value.v : value \in {x \in Range(AllSlots(post.Attachments)) : ~NonEmptyString(x)}}

\* C10: the fragments of a post are the message body, then per attachment its
\* non-empty pretext, its non-empty text and its non-empty string field values,
\* in order; a field value that is not a string, or is empty, adds no fragment.
C10_FieldsAreNonEmptyStrings ==
    pc = "fieldsDone" =>
        /\ fields = ExpectedFields
        /\ Len(fields) =
             1 + Cardinality({i \in 1..Len(AllSlots(post.Attachments)) :
                                NonEmptyString(AllSlots(post.Attachments)[i])})
        /\ \A i \in 2..Len(fields) : fields[i] # <<>>

\* C10 witness: a post with a number-valued field, an empty field and string
\* fields went through getMentionsEnabledFields
C10_Witness ==
    /\ pc = "fieldsDone"
    /\ S_42 \in SkippedValues /\ <<>> \in SkippedValues
    /\ Len(post.Attachments) = 2
    /\ Len(fields) = 5
    /\ S_42 \notin Range(fields)

-----------------------------------------------------------------------------
\* C11: ProcessText has no failure mode: whatever the text (the empty text, a
\* lone `@`, tokens made only of `:`, `.`, `-`, `_`, `@` included) and whatever
\* the index, no index or slice expression of the scan is out of range, and the
\* scan of the empty text leaves the fresh accumulator empty.
C11_NoFailureMode ==
    op.name = "ScanTwice" =>
        /\ ~op.arg.panic
        /\ op.arg.text = T_empty => (results = NewResults /\ results2 = NewResults)

\* C11 witness: the token `:.-_@` was scanned and left one empty potential mention
C11_Witness ==
    /\ op.name = "ScanTwice"
    /\ op.arg.text = T_punct
    /\ ~op.arg.panic
    /\ results.OtherPotentialMentions = <<T_empty>>

-----------------------------------------------------------------------------
Registered(k, keyword, id) == keyword \in DOMAIN k /\ id \in Range(k[keyword])

IsPrefixOf(s, t) == Len(s) <= Len(t) /\ SubSeq(t, 1, Len(s)) = s

\* C12: AddUser registers `@` + the lower-cased username and every non-empty
\* mention key lower-cased for the user, and only appends to the index: every
\* entry that existed keeps its identities, in order, in front of the new one.
\* Hence the scan of a text that is a keyword of the index in some letter case
\* leaves a Mentions entry for every user of the keyword's entry.
C12_AddUserAppends ==
    [][/\ op'.name = "AddUser" =>
            LET profile == op'.arg.profile
                id == mentionableUserID(profile.Id)
            IN  /\ Registered(keywords', <<"@">> \o ToLower(profile.Username), id)
                /\ \A i \in 1..Len(profile.MentionKeys) :
                        profile.MentionKeys[i] # <<>> =>
                            Registered(keywords', ToLower(profile.MentionKeys[i]), id)
                /\ \A k \in DOMAIN keywords :
                        k \in DOMAIN keywords' /\ IsPrefixOf(keywords[k], keywords'[k])
       /\ (op'.name = "ProcessText" /\ ToLower(op'.arg.text) \in DOMAIN keywords) =>
            \A id \in Range(keywords[ToLower(op'.arg.text)]) :
                IsUserID(id) => HasMention(results', id.id)]_vars

\* C12 witness: `@channel` was scanned with an index whose `@channel` entry
\* holds two users, and both are mentioned
C12_Witness ==
    /\ op.name = "ProcessText"
    /\ op.arg.text = T_channel
    /\ AtChannel \in DOMAIN keywords
    /\ Len(keywords[AtChannel]) = 2
    /\ Cardinality(DOMAIN results.Mentions) = 2

-----------------------------------------------------------------------------
(* The keyword index alone: AddUser over the channel-mention settings *)

\* the values GetUserStatus can hand to AddUser: no status, or its Status field
Statuses == {"nil", "online", "away"}

\* the member's channel notify props: ignore_channel_mentions and mark_unread
ChannelPropsSet ==
    {NoProps,
     [ignore_channel_mentions |-> "on"],
     [ignore_channel_mentions |-> "off", mark_unread |-> "mention"],
     [ignore_channel_mentions |-> "default", mark_unread |-> "mention"],
     [ignore_channel_mentions |-> "default", mark_unread |-> "all"],
     [mark_unread |-> "mention"]}

IndexProfiles ==
    {User(u[1], u[2], <<>>, NotifyProps("false", channel), <<>>) :
        u \in {<<"bob", S_bob>>, <<"carol", S_carol>>, <<"alice", S_alice>>},
        channel \in {"true", "false"}}

\* part_001:119-127: one iteration of the loop over the profiles
AddAnyUserStep ==
    /\ pc = "users"
    /\ Len(profiles) < MaxUsers
    /\ \E profile \in IndexProfiles, channelNotifyProps \in ChannelPropsSet,
          status \in Statuses :
        /\ \A i \in 1..Len(profiles) : profiles[i].profile.Id # profile.Id
        /\ keywords' = AddUser(keywords, profile, channelNotifyProps, status, allow)
        /\ profiles' = Append(profiles, [profile |-> profile,
                                         channelNotifyProps |-> channelNotifyProps,
                                         status |-> status])
        /\ op' = [name |-> "AddUser",
                  arg |-> [profile |-> profile,
                           channelNotifyProps |-> channelNotifyProps,
                           status |-> status]]
    /\ UNCHANGED <<groups, allow, results, results2, pc, pending, nops, post, fields>>
    /\ UNCHANGED <<nodes, ni, buf, processed, ctx>>

NextIndex == AddAnyUserStep

SpecIndex == Init /\ [][NextIndex]_vars

\* the conditions under which the claim lets a member receive broadcast keywords
ChannelMentionsOn(m) ==
    /\ allow
    /\ Prop(m.profile.NotifyProps, "channel") = "true"
    /\ Prop(m.channelNotifyProps, "ignore_channel_mentions") # "on"
    /\ ~(/\ Prop(m.channelNotifyProps, "mark_unread") = "mention"
         /\ Prop(m.channelNotifyProps, "ignore_channel_mentions") = "default")

\* C13: AddUser registers `@channel` and `@all` for a user exactly when channel
\* mentions are allowed, the user's channel-mentions preference is on and the
\* member does not ignore channel mentions (ignore setting on, or channel muted
\* with the ignore setting at default); it registers `@here` only when these
\* hold and the status is online, so a user registered for `@here` is
\* registered for `@channel` and `@all`.
C13_BroadcastKeywords ==
    [][op'.name = "AddUser" =>
        LET m == op'.arg
            id == mentionableUserID(m.profile.Id)
        IN  /\ Registered(keywords', AtChannel, id) <=> ChannelMentionsOn(m)
            /\ Registered(keywords', AtAll, id) <=> ChannelMentionsOn(m)
            /\ Registered(keywords', AtHere, id) =>
                    (ChannelMentionsOn(m) /\ m.status = "online")
            /\ Registered(keywords', AtHere, id) =>
                    (Registered(keywords', AtChannel, id)
                        /\ Registered(keywords', AtAll, id))]_vars

\* C13 witness: a member of a muted channel with the ignore setting off was
\* added after an online member: the first holds `@here`, both hold `@channel`
C13_Witness ==
    /\ op.name = "AddUser"
    /\ Len(profiles) = 2
    /\ Prop(op.arg.channelNotifyProps, "mark_unread") = "mention"
    /\ Prop(op.arg.channelNotifyProps, "ignore_channel_mentions") = "off"
    /\ AtHere \in DOMAIN keywords
    /\ keywords[AtHere] = <<mentionableUserID(profiles[1].profile.Id)>>
    /\ keywords[AtChannel] = <<mentionableUserID(profiles[1].profile.Id),
                               mentionableUserID(profiles[2].profile.Id)>>

-----------------------------------------------------------------------------
HasName(group) == group.Name # "nil" /\ group.Name # T_empty

\* C14: AddGroupsMap registers `@<name>` for every group with a non-empty name
\* and no keyword for a group without one; a group whose name is present but
\* empty adds nothing, so the index never gets the bare key `@` from a group.
C14_GroupKeywords ==
    [][op'.name = "AddGroupsMap" =>
        \A i \in 1..Len(groups') :
            LET group == groups'[i]
                id == mentionableGroupID(group.Id)
            IN  /\ HasName(group) => Registered(keywords', <<"@">> \o group.Name, id)
                /\ ~HasName(group) =>
                        /\ \A k \in DOMAIN keywords' : id \notin Range(keywords'[k])
                        /\ T_at \notin DOMAIN keywords']_vars

-----------------------------------------------------------------------------
\* the text is one token that ProcessText neither skips nor trims on the left
SingleToken(text) ==
    /\ FieldsFunc(text, {c \in Range(text) : ~IsMentionChar(c)}) = <<text>>
    /\ ~IsEmojiWord(text)
    /\ TrimLeft(text, {":", ".", "-", "_"}) = text

\* C15: the multibyte substring check runs for every token, whichever of the
\* other steps applied: after the scan of a token that contains multibyte
\* keywords of the index, the users of one of these keywords hold a Mentions
\* entry of Keyword type or higher, also when the token matched directly or
\* after suffix stripping.
C15_MultibyteAlwaysChecked ==
    [][(/\ op'.name = "ProcessText"
        /\ SingleToken(op'.arg.text)
        /\ MultibyteMatches(keywords, op'.arg.text) # {}) =>
        \E key \in MultibyteMatches(keywords, op'.arg.text) :
            \A id \in Range(keywords[key]) :
                IsUserID(id) =>
                    /\ HasMention(results', id.id)
                    /\ results'.Mentions[id.id] >= KeywordMention]_vars

-----------------------------------------------------------------------------
(* One direct match: checkForMention on a fresh accumulator *)

T_AtBobUpper == <<"@","B","o","b">>

\* the candidate words handed to checkForMention
Words ==
    {T_here, T_Here, T_HERE, T_channel, T_Channel, T_all, T_ALL, T_nameBob,
     T_namebob, T_nameBOB, T_zed, S_AtBob, T_AtBobUpper, S_AtCarol, T_devs, T_at,
     T_empty, T_eu, T_Eu}

\* mentions.go:170: p.checkForMention(word), with the value it returns
CheckForMentionStep ==
    /\ pc = "parser"
    /\ \E word \in Words :
        LET c == checkForMention(NewResults, keywords, word)
        IN  /\ results' = c.res
            /\ op' = [name |-> "checkForMention",
                      arg |-> [word |-> word, ret |-> c.match]]
    /\ pc' = "checked"
    /\ UNCHANGED <<keywords, profiles, groups, allow, results2, pending, nops, post, fields>>
    /\ UNCHANGED <<nodes, ni, buf, processed, ctx>>

NextCheck == AddUserStep \/ AddGroupsMapStep \/ CheckForMentionStep

SpecCheck == Init /\ [][NextCheck]_vars

\* C16: checkForMention looks the word up lower-cased and, only when that
\* misses, as written; the identities of the first hit are recorded, at Channel
\* type when the lower-cased word is a broadcast word and at Keyword type
\* otherwise; the broadcast flag of the word is set whether or not a lookup
\* hits, and the value returned is TRUE exactly when one of the lookups hit.
C16_DirectMatch ==
    op.name = "checkForMention" =>
        LET word == op.arg.word
            lower == ToLower(word)
            ids == IF lower \in DOMAIN keywords THEN keywords[lower]
                   ELSE IF word \in DOMAIN keywords THEN keywords[word]
                   ELSE <<>>
            mentionType == IF lower \in {AtHere, AtChannel, AtAll}
                           THEN ChannelMention ELSE KeywordMention
            users == {id.id : id \in {x \in Range(ids) : IsUserID(x)}}
            groupIDs == {id.id : id \in {x \in Range(ids) : IsGroupID(x)}}
        IN  /\ op.arg.ret = (lower \in DOMAIN keywords \/ word \in DOMAIN keywords)
            /\ results.Mentions = [u \in users |-> mentionType]
            /\ results.GroupMentions = [g \in groupIDs |-> GroupMention]
            /\ results.HereMentioned = (lower = AtHere)
            /\ results.ChannelMentioned = (lower = AtChannel)
            /\ results.AllMentioned = (lower = AtAll)
            /\ results.OtherPotentialMentions = <<>>

\* C16 witness: `Bob` was looked up in an index that holds `bob` for carol and
\* `Bob` for bob, and only carol is recorded
C16_Witness ==
    /\ op.name = "checkForMention"
    /\ op.arg.word = T_nameBob
    /\ op.arg.ret
    /\ T_nameBob \in DOMAIN keywords
    /\ T_namebob \in DOMAIN keywords
    /\ results.Mentions = [u \in {"carol"} |-> KeywordMention]

\* a broadcast word absent from the index has set its flag and returned FALSE
C16_WitnessAbsent ==
    /\ op.name = "checkForMention"
    /\ op.arg.word = T_Here
    /\ ~op.arg.ret
    /\ results.HereMentioned
    /\ results.Mentions = EmptyMap

-----------------------------------------------------------------------------
\* the proper prefixes of text that leave only `.`, `-`, `:`, `_` behind them
StrippedForms(text) ==
    {SubSeq(text, 1, n) :
        n \in {m \in 0..(Len(text) - 1) :
                \A j \in (m + 1)..Len(text) : text[j] \in {".", "-", ":", "_"}}}

\* the keyword a direct match of word hits, if any
Hits(kw, word) == ToLower(word) \in DOMAIN kw \/ word \in DOMAIN kw

KeyOf(kw, word) == IF ToLower(word) \in DOMAIN kw THEN ToLower(word) ELSE word

\* C17: a token that is a keyword followed by any number of the characters
\* `.`, `-`, `:`, `_` is matched by the suffix-strip loop: the users of a
\* keyword reached by stripping hold a Mentions entry of the matched type or
\* higher, and the token adds nothing to OtherPotentialMentions.
C17_SuffixStripped ==
    [][(/\ op'.name = "ProcessText"
        /\ SingleToken(op'.arg.text)
        /\ \E p \in StrippedForms(op'.arg.text) : Hits(keywords, p)) =>
        /\ \E p \in StrippedForms(op'.arg.text) :
                /\ Hits(keywords, p)
                /\ \A id \in Range(keywords[KeyOf(keywords, p)]) :
                        IsUserID(id) =>
                            /\ HasMention(results', id.id)
                            /\ results'.Mentions[id.id] >= MentionTypeOf(p)
        /\ results'.OtherPotentialMentions = results.OtherPotentialMentions]_vars

\* C17 witness: `@carol_:` was scanned with `@carol` registered: carol is
\* mentioned and there is no potential mention
C17_Witness ==
    /\ op.name = "ProcessText"
    /\ op.arg.first
    /\ op.arg.text = T_carolUnderColon
    /\ S_AtCarol \in DOMAIN keywords
    /\ HasMention(results, "carol")
    /\ results.Mentions["carol"] = KeywordMention
    /\ results.OtherPotentialMentions = <<>>

-----------------------------------------------------------------------------
(* The document walk of getExplicitMentions, mentions.go:108-133 *)

MaxNodes == 5

S_dotAnd == <<".","a","n","d">>

TextNode(text) == [kind |-> "Text", text |-> text]

\* a node that is not a *markdown.Text
OtherNode(kind) == [kind |-> kind, text |-> T_empty]

NodeSet ==
    {TextNode(S_AtBob), TextNode(S_dotAnd), OtherNode("Document"),
     OtherNode("Paragraph")}

\* the nodes the callback is handed over all the fields of the post, in order
NodeSeqs == SeqsUpTo(NodeSet, MaxNodes)

\* a plausible slip: the buffer is flushed but not reset
VisitNodeNoReset(b, node) ==
    IF node.kind # "Text"
    THEN [buf |-> b, call |-> b # T_empty]
    ELSE [buf |-> b \o node.text, call |-> FALSE]

\* mentions.go:112-127, the callback: buf afterwards, and whether ProcessText(buf)
\* was called
VisitNode(b, node) ==
    IF node.kind # "Text"
    THEN [buf |-> T_empty, call |-> b # T_empty]
    ELSE [buf |-> b \o node.text, call |-> FALSE]

InitWalk ==
    /\ keywords = SampleKeywords
    /\ profiles = <<>>
    /\ groups = <<>>
    /\ allow = TRUE
    /\ results = NewResults
    /\ results2 = NewResults
    /\ pc = "walk"
    /\ pending = <<>>
    /\ nops = 0
    /\ post = NoPost
    /\ fields = <<>>
    /\ nodes \in NodeSeqs
    /\ ni = 0
    /\ buf = T_empty
    /\ processed = <<>>
    /\ ctx = NoContext
    /\ op = [name |-> "init"]

\* one call of the callback by markdown.Inspect
VisitNodeStep ==
    /\ pc = "walk"
    /\ ni < Len(nodes)
    /\ LET v == VisitNode(buf, nodes[ni + 1])
       IN  /\ buf' = v.buf
           /\ processed' = IF v.call THEN Append(processed, buf) ELSE processed
           /\ results' \in IF v.call THEN ProcessText(results, keywords, buf)
                           ELSE {results}
    /\ ni' = ni + 1
    /\ op' = [name |-> "Inspect", arg |-> nodes[ni + 1]]
    /\ UNCHANGED <<keywords, profiles, groups, allow, results2, pc, pending, nops>>
    /\ UNCHANGED <<post, fields, nodes, ctx>>

\* mentions.go:130-135: the left-over text is processed and the results returned
FinishWalkStep ==
    /\ pc = "walk"
    /\ ni = Len(nodes)
    /\ processed' = IF buf # T_empty THEN Append(processed, buf) ELSE processed
    /\ results' \in IF buf # T_empty THEN ProcessText(results, keywords, buf)
                    ELSE {results}
    /\ pc' = "walked"
    /\ op' = [name |-> "Results", arg |-> buf]
    /\ UNCHANGED <<keywords, profiles, groups, allow, results2, pending, nops>>
    /\ UNCHANGED <<post, fields, nodes, ni, buf, ctx>>

NextWalk == VisitNodeStep \/ FinishWalkStep

SpecWalk == InitWalk /\ [][NextWalk]_vars

IsText(seq, i) == seq[i].kind = "Text"

\* the positions where a run of adjacent text nodes starts
RunStarts(seq) ==
    {i \in 1..Len(seq) : IsText(seq, i) /\ (i = 1 \/ ~IsText(seq, i - 1))}

\* the position where the run that starts at i ends
RunEnd(seq, i) ==
    CHOOSE j \in i..Len(seq) :
        /\ \A k \in i..j : IsText(seq, k)
        /\ j = Len(seq) \/ ~IsText(seq, j + 1)

RECURSIVE ConcatText(_, _, _)
ConcatText(seq, i, j) ==
    IF i > j THEN T_empty ELSE seq[i].text \o ConcatText(seq, i + 1, j)

\* the texts of the maximal runs of adjacent text nodes, in document order
MaximalRuns(seq) ==
    [k \in 1..Cardinality(RunStarts(seq)) |->
        LET start == CHOOSE s \in RunStarts(seq) :
                        Cardinality({x \in RunStarts(seq) : x < s}) = k - 1
        IN  ConcatText(seq, start, RunEnd(seq, start))]

\* C18: adjacent text nodes are coalesced in buf; a non-text node flushes a
\* non-empty buf as one ProcessText call and resets it, and the rest is flushed
\* at the end. At every point of the walk the texts processed so far, followed
\* by the pending buffer, are the maximal runs of adjacent text nodes among the
\* nodes seen, in document order; after the walk the texts processed are the
\* maximal runs of the whole document, and no empty text is ever processed.
C18_FragmentsAreMaximalRuns ==
    /\ pc \in {"walk", "walked"} =>
        /\ \A k \in 1..Len(processed) : processed[k] # T_empty
        /\ pc = "walk" =>
            processed \o (IF buf # T_empty THEN <<buf>> ELSE <<>>)
                = MaximalRuns(SubSeq(nodes, 1, ni))
        /\ pc = "walked" => processed = MaximalRuns(nodes)

\* C18 witness: the walk of Text, Text, Paragraph, Text has ended: two texts
\* were processed, the first one coalesced from two nodes
C18_Witness ==
    /\ pc = "walked"
    /\ nodes = <<TextNode(S_AtBob), TextNode(S_dotAnd), OtherNode("Paragraph"),
                 TextNode(S_AtBob)>>
    /\ processed = <<S_AtBob \o S_dotAnd, S_AtBob>>
    /\ results.OtherPotentialMentions = <<S_bobDotAnd>>
    /\ HasMention(results, "bob")

-----------------------------------------------------------------------------
(* The log rendering of a result, part_000:134-174 *)

\* part_000:153-174
formatMentionType(mentionType) ==
    CASE mentionType = NoMention -> "none"
      [] mentionType = GMMention -> "gm"
      [] mentionType = ThreadMention -> "thread"
      [] mentionType = CommentMention -> "comment"
      [] mentionType = ChannelMention -> "channel"
      [] mentionType = DMMention -> "dm"
      [] mentionType = KeywordMention -> "keyword"
      [] mentionType = GroupMention -> "group"
      [] OTHER -> "unknown"

\* the orders in which a range over a map with key set S can visit the keys
Orders(S) ==
    {q \in [1..Cardinality(S) -> S] : \A i, j \in DOMAIN q : q[i] = q[j] => i = j}

RECURSIVE RenderEntries(_, _, _)
\* part_000:142-148: the pieces appended to result for the keys of order from i on
RenderEntries(mentions, order, i) ==
    IF i > Len(order) THEN <<>>
    ELSE (IF i # 1 THEN <<", ">> ELSE <<>>)
         \o <<order[i], ":", formatMentionType(mentions[order[i]])>>
         \o RenderEntries(mentions, order, i + 1)

\* formatMentionsForLog: every string the call can return, as its pieces
formatMentionsForLog(mentions) ==
    IF Cardinality(DOMAIN mentions) = 0 THEN {<<"none">>}
    ELSE {<<"[">> \o RenderEntries(mentions, order, 1) \o <<"]">> :
            order \in Orders(DOMAIN mentions)}

\* part_000:92,96: the map is formatted, and formatted once more
FormatMentionsForLogStep ==
    /\ pc = "enrich"
    /\ \E mentions \in {results.Mentions, results.GroupMentions} :
        \E first \in formatMentionsForLog(mentions),
           second \in formatMentionsForLog(mentions) :
            op' = [name |-> "formatMentionsForLog",
                   arg |-> [mentions |-> mentions, first |-> first,
                            second |-> second]]
    /\ pc' = "logged"
    /\ UNCHANGED <<keywords, profiles, groups, allow, results, results2, pending>>
    /\ UNCHANGED <<nops, post, fields, nodes, ni, buf, processed, ctx>>

NextLog == AddMentionStep \/ RemoveMentionStep \/ FormatMentionsForLogStep

SpecLog == InitAcc /\ [][NextLog]_vars

\* C19: formatting the same map twice yields the same string, for a map with
\* two or more entries as for the empty map, which is rendered `none`.
C19_RenderingDeterministic ==
    op.name = "formatMentionsForLog" =>
        /\ op.arg.first = op.arg.second
        /\ DOMAIN op.arg.mentions = {} => op.arg.first = <<"none">>

-----------------------------------------------------------------------------
(* getExplicitMentionsAndKeywords, part_001:134-227 *)

NotifyPropsWithComments(firstName, channel, comments) ==
    [first_name |-> firstName, channel |-> channel, comments |-> comments]

\* profileMap[id], for the ids that have a profile
PostProfile(id) ==
    CASE id = "bob" ->
            User("bob", S_bob, S_Bob, NotifyPropsWithComments("true", "true", "any"), <<>>)
      [] id = "carol" ->
            User("carol", S_carol, <<>>, NotifyPropsWithComments("false", "true", "root"), <<>>)
      [] id = "alice" ->
            User("alice", S_alice, <<>>, NotifyPropsWithComments("false", "false", "never"), <<>>)

\* p.API.GetUserStatus: the Status field, "nil" without a status
StatusOf(id) ==
    CASE id = "bob" -> "online" [] id = "carol" -> "away" [] OTHER -> "nil"

\* p.API.GetPreferenceForUser for collapsed threads: the value, or "err"
CRTPreference(id) ==
    CASE id = "bob" -> "err" [] id = "carol" -> "on" [] OTHER -> "off"

\* channelMemberNotifyPropsMap
MemberProps == [id \in {"bob", "carol", "alice"} |-> NoProps]

\* post.GetProp(key)
GetProp(p, key) == IF key \in DOMAIN p.Props THEN p.Props[key] ELSE NilValue

\* post.GetProp("from_webhook") == "true"
FromWebhook(p) ==
    IsString(GetProp(p, "from_webhook")) /\ GetProp(p, "from_webhook").v = "true"

\* part_001:83-97
IsCRTEnabledForUser(c, userID) ==
    IF c.appCRT = "disabled" THEN FALSE
    ELSE IF c.appCRT = "always_on" THEN TRUE
    ELSE IF CRTPreference(userID) # "err" THEN CRTPreference(userID) = "on"
    ELSE c.appCRT = "default_on"

\* a plausible slip: the cap of notified members is not consulted
allowChannelMentionsNoCap(c) ==
    /\ c.hasPermission
    /\ c.post.Type \notin {"system_header_change", "system_purpose_change"}

\* part_001:100-114
allowChannelMentions(c) ==
    /\ c.hasPermission
    /\ c.post.Type \notin {"system_header_change", "system_purpose_change"}
    /\ ~(Cardinality(c.profileMap) >= c.maxNotifications)

RECURSIVE AddUsers(_, _, _, _)
\* part_001:119-127, the profiles visited in the order given
AddUsers(k, order, i, allowed) ==
    IF i > Len(order) THEN k
    ELSE AddUsers(AddUser(k, PostProfile(order[i]), MemberProps[order[i]],
                          StatusOf(order[i]), allowed),
                  order, i + 1, allowed)

\* part_001:116-132
getMentionKeywordsInChannel(order, allowed, groupList) ==
    AddGroupsMap(AddUsers(NoKeywords, order, 1, allowed), groupList)

RECURSIVE ScanFields(_, _, _)
\* mentions.go:110-133 for fields of plain text: every non-empty field is one
\* run of text and is handed to ProcessText once
ScanFields(rs, kw, fieldList) ==
    IF fieldList = <<>> THEN rs
    ELSE ScanFields(
            IF Head(fieldList) = T_empty THEN rs
            ELSE UNION {ProcessText(r, kw, Head(fieldList)) : r \in rs},
            kw, Tail(fieldList))

\* getExplicitMentions: every accumulator it can return
getExplicitMentions(p, kw) ==
    ScanFields({NewResults}, kw, getMentionsEnabledFields(p))

\* a plausible slip: the text of a DM post is scanned like any other, with the
\* index nobody built
DirectMessageMentionsScanned(res, c) ==
    LET scanned == CHOOSE r \in ProcessText(res, NoKeywords, c.post.Message) : TRUE
        isWebhook == FromWebhook(c.post)
        r1 == IF (c.post.UserId # c.channel.user1 \/ isWebhook)
                    /\ c.channel.user1 \in c.profileMap
              THEN addMention(scanned, c.channel.user1, DMMention) ELSE scanned
    IN  IF c.channel.user2 # ""
            /\ (c.post.UserId # c.channel.user2 \/ isWebhook)
            /\ c.channel.user2 \in c.profileMap
        THEN addMention(r1, c.channel.user2, DMMention) ELSE r1

\* part_001:146-163
DirectMessageMentions(res, c) ==
    LET isWebhook == FromWebhook(c.post)
        r1 == IF (c.post.UserId # c.channel.user1 \/ isWebhook)
                    /\ c.channel.user1 \in c.profileMap
              THEN addMention(res, c.channel.user1, DMMention) ELSE res
    IN  IF c.channel.user2 # ""
            /\ (c.post.UserId # c.channel.user2 \/ isWebhook)
            /\ c.channel.user2 \in c.profileMap
        THEN addMention(r1, c.channel.user2, DMMention) ELSE r1

RECURSIVE AddMentionAll(_, _, _)
AddMentionAll(res, ids, mentionType) ==
    IF ids = {} THEN res
    ELSE LET id == CHOOSE x \in ids : TRUE
         IN  AddMentionAll(addMention(res, id, mentionType), ids \ {id}, mentionType)

RECURSIVE AddMentionAllOverwrite(_, _, _)
AddMentionAllOverwrite(res, ids, mentionType) ==
    IF ids = {} THEN res
    ELSE LET id == CHOOSE x \in ids : TRUE
         IN  AddMentionAllOverwrite(addMentionOverwrite(res, id, mentionType),
                                    ids \ {id}, mentionType)

\* a plausible slip: the GM type is stored whatever type is there
GroupMessageMentionsOverwrite(res, c) ==
    IF c.channel.Type = "G"
    THEN AddMentionAllOverwrite(res, DOMAIN MemberProps \cap c.profileMap, GMMention)
    ELSE res

\* part_001:171-179
GroupMessageMentions(res, c) ==
    IF c.channel.Type = "G"
    THEN AddMentionAll(res, DOMAIN MemberProps \cap c.profileMap, GMMention)
    ELSE res

\* part_001:183-191
AddedToChannelMention(res, c) ==
    IF /\ c.post.Type = "system_add_to_channel"
       /\ IsString(GetProp(c.post, "addedUserId"))
       /\ GetProp(c.post, "addedUserId").v \in c.profileMap
    THEN addMention(res, GetProp(c.post, "addedUserId").v, KeywordMention)
    ELSE res

\* a plausible slip: the type of the thread post visited last is stored
ThreadPostMentionOverwrite(res, c, threadPost) ==
    LET isRoot == threadPost.Id = c.parentPostList.Order[1]
        comments == Prop(PostProfile(threadPost.UserId).NotifyProps, "comments")
    IN  IF threadPost.UserId \notin c.profileMap THEN res
        ELSE IF isRoot /\ threadPost.IsFromOAuthBot THEN res
        ELSE IF IsCRTEnabledForUser(c, threadPost.UserId) THEN res
        ELSE IF comments = "any" \/ (comments = "root" /\ isRoot)
        THEN addMentionOverwrite(res, threadPost.UserId,
                                 IF isRoot THEN CommentMention ELSE ThreadMention)
        ELSE res

\* part_001:196-216, one thread post
ThreadPostMention(res, c, threadPost) ==
    LET isRoot == threadPost.Id = c.parentPostList.Order[1]
        comments == Prop(PostProfile(threadPost.UserId).NotifyProps, "comments")
    IN  IF threadPost.UserId \notin c.profileMap THEN res
        ELSE IF isRoot /\ threadPost.IsFromOAuthBot THEN res
        ELSE IF IsCRTEnabledForUser(c, threadPost.UserId) THEN res
        ELSE IF comments = "any" \/ (comments = "root" /\ isRoot)
        THEN addMention(res, threadPost.UserId,
                        IF isRoot THEN CommentMention ELSE ThreadMention)
        ELSE res

RECURSIVE ThreadPostsLoop(_, _, _)
ThreadPostsLoop(res, c, posts) ==
    IF posts = <<>> THEN res
    ELSE ThreadPostsLoop(ThreadPostMention(res, c, Head(posts)), c, Tail(posts))

\* part_001:194-218: every accumulator the loop can leave; parentPostList.Posts
\* is a map, so the range can visit the thread posts in any order
ThreadMentions(res, c) ==
    IF c.post.RootId # "" /\ ~c.parentPostList.isNil
    THEN {ThreadPostsLoop(res, c, [i \in DOMAIN order |-> c.parentPostList.Posts[order[i]]]) :
            order \in Orders(DOMAIN c.parentPostList.Posts)}
    ELSE {res}

\* a plausible slip: the webhook test is inverted
RemoveSelfMentionOfWebhook(res, c) ==
    IF FromWebhook(c.post) THEN removeMention(res, c.post.UserId) ELSE res

\* part_001:220-223
RemoveSelfMention(res, c) ==
    IF ~FromWebhook(c.post) THEN removeMention(res, c.post.UserId) ELSE res


ThreadPost(id, userID, oauth) ==
    [Id |-> id, UserId |-> userID, IsFromOAuthBot |-> oauth]

\* parentPostList: the posts of its Posts map, and Order
PostList(posts, order) == [isNil |-> FALSE, Posts |-> posts, Order |-> order]

NilPostList == [isNil |-> TRUE, Posts |-> <<>>, Order |-> <<>>]

\* post.RootId with parentPostList
Threads ==
    {<<"", NilPostList>>,
     <<"root", NilPostList>>,
     <<"root", PostList(<<ThreadPost("root", "bob", FALSE),
                          ThreadPost("r1", "carol", FALSE),
                          ThreadPost("r2", "bob", FALSE)>>, <<"root", "r1", "r2">>)>>,
     <<"root", PostList(<<ThreadPost("r1", "bob", FALSE),
                          ThreadPost("root", "carol", TRUE),
                          ThreadPost("r2", "alice", FALSE)>>, <<"root", "r1", "r2">>)>>,
     <<"root", PostList(<<ThreadPost("root", "carol", FALSE),
                          ThreadPost("r1", "bob", FALSE),
                          ThreadPost("r2", "bob", FALSE)>>, <<"root", "r1", "r2">>)>>}

NoPostProps == [x \in {} |-> NilValue]

\* post.Type with the addedUserId prop
PostKinds ==
    {<<"", NoPostProps>>,
     <<"system_header_change", NoPostProps>>,
     <<"system_add_to_channel", [addedUserId |-> StringValue("alice")]>>,
     <<"system_add_to_channel", [addedUserId |-> StringValue("bob")]>>,
     <<"system_add_to_channel", [addedUserId |-> NumberValue("7")]>>}

WebhookProps == {NoPostProps, [from_webhook |-> StringValue("true")]}

PostInput(userID, type, rootID, message, props) ==
    [UserId |-> userID, Type |-> type, RootId |-> rootID, Message |-> message,
     Attachments |-> <<>>, Props |-> props]

ProfileMaps == {{"bob", "carol"}, {"carol", "alice"}}

\* channel.GetBothUsersForDM()
DMPairs == {<<"bob", "carol">>, <<"carol", "bob">>, <<"bob", "">>, <<"", "">>}

\* HasPermissionToChannel with TeamSettings.MaxNotificationsPerChannel
ChannelMentionSettings == {<<TRUE, 1000>>, <<FALSE, 1000>>, <<TRUE, 2>>}

AppCRTSettings == {"disabled", "always_on", "default_on", "default_off"}

Context(channelType, pair, p, profileMap, setting, appCRT, list) ==
    [channel |-> [Type |-> channelType, user1 |-> pair[1], user2 |-> pair[2]],
     post |-> p, profileMap |-> profileMap, hasPermission |-> setting[1],
     maxNotifications |-> setting[2], appCRT |-> appCRT, parentPostList |-> list]

DMContexts ==
    {Context("D", pair, PostInput(author, "", "", message, webhook), profileMap,
             <<TRUE, 1000>>, "disabled", NilPostList) :
        pair \in DMPairs, author \in {"bob", "carol"}, webhook \in WebhookProps,
        message \in {T_helloBob, T_allHereChannel, T_zed},
        profileMap \in ProfileMaps}

ChannelContexts ==
    {Context(channelType, <<"", "">>,
             PostInput(author, kind[1], thread[1], message, webhook @@ kind[2]),
             profileMap, setting, appCRT, thread[2]) :
        channelType \in {"G", "O"}, author \in {"bob", "carol"},
        webhook \in WebhookProps, kind \in PostKinds, thread \in Threads,
        message \in {T_helloBob, T_allHereChannel}, profileMap \in ProfileMaps,
        setting \in ChannelMentionSettings, appCRT \in AppCRTSettings}

PostGroups == <<Group("g1", S_devs)>>

InitPost ==
    /\ keywords = NoKeywords
    /\ profiles = <<>>
    /\ groups = <<>>
    /\ allow = FALSE
    /\ results = NewResults
    /\ results2 = NewResults
    /\ pc = "post"
    /\ pending = <<>>
    /\ nops = 0
    /\ post = NoPost
    /\ fields = <<>>
    /\ nodes = <<>>
    /\ ni = 0
    /\ buf = <<>>
    /\ processed = <<>>
    /\ ctx \in DMContexts \cup ChannelContexts
    /\ op = [name |-> "init"]

\* part_001:139-163
DirectMessageStep ==
    /\ pc = "post"
    /\ ctx.channel.Type = "D"
    /\ results' = DirectMessageMentions(results, ctx)
    /\ pc' = "returned"
    /\ op' = [name |-> "DirectMessage"]
    /\ UNCHANGED <<keywords, profiles, groups, allow, results2, pending, nops>>
    /\ UNCHANGED <<post, fields, nodes, ni, buf, processed, ctx>>

\* part_001:165-166
KeywordsStep ==
    /\ pc = "post"
    /\ ctx.channel.Type # "D"
    /\ allow' = allowChannelMentions(ctx)
    /\ \E order \in Orders(ctx.profileMap) :
        /\ keywords' = getMentionKeywordsInChannel(order, allowChannelMentions(ctx),
                                                   PostGroups)
        /\ op' = [name |-> "getMentionKeywordsInChannel", arg |-> order]
    /\ groups' = PostGroups
    /\ pc' = "explicit"
    /\ UNCHANGED <<profiles, results, results2, pending, nops>>
    /\ UNCHANGED <<post, fields, nodes, ni, buf, processed, ctx>>

\* part_001:168
ExplicitMentionsStep ==
    /\ pc = "explicit"
    /\ results' \in getExplicitMentions(ctx.post, keywords)
    /\ pc' = "gm"
    /\ op' = [name |-> "getExplicitMentions"]
    /\ UNCHANGED <<keywords, profiles, groups, allow, results2, pending, nops>>
    /\ UNCHANGED <<post, fields, nodes, ni, buf, processed, ctx>>

\* part_001:170-179
GroupMessageStep ==
    /\ pc = "gm"
    /\ results' = GroupMessageMentions(results, ctx)
    /\ pc' = "added"
    /\ op' = [name |-> "GroupMessage"]
    /\ UNCHANGED <<keywords, profiles, groups, allow, results2, pending, nops>>
    /\ UNCHANGED <<post, fields, nodes, ni, buf, processed, ctx>>

\* part_001:181-191
AddedToChannelStep ==
    /\ pc = "added"
    /\ results' = AddedToChannelMention(results, ctx)
    /\ pc' = "thread"
    /\ op' = [name |-> "AddedToChannel"]
    /\ UNCHANGED <<keywords, profiles, groups, allow, results2, pending, nops>>
    /\ UNCHANGED <<post, fields, nodes, ni, buf, processed, ctx>>

\* part_001:193-218
ThreadStep ==
    /\ pc = "thread"
    /\ results' \in ThreadMentions(results, ctx)
    /\ pc' = "self"
    /\ op' = [name |-> "Thread"]
    /\ UNCHANGED <<keywords, profiles, groups, allow, results2, pending, nops>>
    /\ UNCHANGED <<post, fields, nodes, ni, buf, processed, ctx>>

\* part_001:220-226
RemoveSelfStep ==
    /\ pc = "self"
    /\ results' = RemoveSelfMention(results, ctx)
    /\ pc' = "returned"
    /\ op' = [name |-> "RemoveSelf"]
    /\ UNCHANGED <<keywords, profiles, groups, allow, results2, pending, nops>>
    /\ UNCHANGED <<post, fields, nodes, ni, buf, processed, ctx>>

NextPost ==
    \/ DirectMessageStep \/ KeywordsStep \/ ExplicitMentionsStep
    \/ GroupMessageStep \/ AddedToChannelStep \/ ThreadStep \/ RemoveSelfStep

SpecPost == InitPost /\ [][NextPost]_vars

\* C20: the result returned for a post that is not from a webhook holds no
\* Mentions entry for the post's author, in a DM, a GM or any other channel and
\* whatever the explicit, GM, add-to-channel and thread rules recorded; in the
\* channels that are not DMs the entry, if any, is there until the last step
\* removes it.
C20_NoSelfMention ==
    (pc = "returned" /\ ~FromWebhook(ctx.post)) =>
        ~HasMention(results, ctx.post.UserId)

\* C20 witness: bob's own post in a GM thread he started, naming himself and
\* adding himself, has returned: carol holds an entry and bob holds none
C20_Witness ==
    /\ pc = "returned"
    /\ op.name = "RemoveSelf"
    /\ ~FromWebhook(ctx.post)
    /\ ctx.channel.Type = "G"
    /\ ctx.post.UserId = "bob"
    /\ ctx.post.Message = T_helloBob
    /\ ctx.post.Type = "system_add_to_channel"
    /\ GetProp(ctx.post, "addedUserId") = StringValue("bob")
    /\ ctx.post.RootId = "root"
    /\ ~ctx.parentPostList.isNil
    /\ ctx.parentPostList.Posts[1].UserId = "bob"
    /\ ctx.appCRT = "disabled"
    /\ HasMention(results, "carol")
    /\ ~HasMention(results, "bob")

\* in a DM the other user is recorded and the author is not
C20_WitnessDM ==
    /\ pc = "returned"
    /\ ctx.channel.Type = "D"
    /\ ~FromWebhook(ctx.post)
    /\ ctx.post.UserId = "bob"
    /\ ctx.channel.user1 = "bob"
    /\ results.Mentions = [u \in {"carol"} |-> DMMention]

-----------------------------------------------------------------------------
\* C21: in a group-message channel every member that has a profile and is not
\* the author of a post that is not from a webhook holds, in the result
\* returned, a Mentions entry of GM type or higher; and the GM step, which
\* follows the scan, lowers the type of no entry the scan recorded.
C21_GroupMessageMembers ==
    [][/\ (pc' = "returned" /\ ctx.channel.Type = "G") =>
            \A id \in DOMAIN MemberProps \cap ctx.profileMap :
                (id # ctx.post.UserId \/ FromWebhook(ctx.post)) =>
                    /\ HasMention(results', id)
                    /\ results'.Mentions[id] >= GMMention
       /\ op'.name = "GroupMessage" =>
            \A u \in DOMAIN results.Mentions :
                /\ HasMention(results', u)
                /\ results'.Mentions[u] >= results.Mentions[u]]_vars

\* C21 witness: bob's `@all @here @channel` in a GM with the profiles of carol
\* and alice has returned: carol keeps the Channel type of the scan, alice
\* holds the GM type
C21_Witness ==
    /\ pc = "returned"
    /\ ctx.channel.Type = "G"
    /\ ctx.post.UserId = "bob"
    /\ ctx.post.Message = T_allHereChannel
    /\ ~FromWebhook(ctx.post)
    /\ results.Mentions = [u \in {"carol", "alice"} |->
                                IF u = "carol" THEN ChannelMention ELSE GMMention]

-----------------------------------------------------------------------------
\* the users of the DM channel the claim expects in the result
ExpectedDMUsers(c) ==
    {u \in {c.channel.user1, c.channel.user2} \cap c.profileMap :
        u # c.post.UserId \/ FromWebhook(c.post)}

\* C22: in a direct-message channel no keyword index is built and the text is
\* not scanned: the result returned holds a DM-type entry for each of the two
\* channel users that has a profile and is not the author (or the post is from
\* a webhook) and nothing else; GroupMentions and OtherPotentialMentions are
\* empty and the three broadcast flags are false, whatever the text is.
C22_DirectMessageOnly ==
    (pc = "returned" /\ ctx.channel.Type = "D") =>
        /\ keywords = NoKeywords
        /\ results.Mentions = [u \in ExpectedDMUsers(ctx) |-> DMMention]
        /\ results.GroupMentions = EmptyMap
        /\ results.OtherPotentialMentions = <<>>
        /\ ~results.HereMentioned
        /\ ~results.AllMentioned
        /\ ~results.ChannelMentioned

\* C22 witness: a webhook post signed bob with the text `@all @here @channel` in
\* the DM of bob and carol has returned with both users at DM type
C22_Witness ==
    /\ pc = "returned"
    /\ ctx.channel.Type = "D"
    /\ ctx.post.Message = T_allHereChannel
    /\ ctx.post.UserId = "bob"
    /\ FromWebhook(ctx.post)
    /\ results.Mentions = [u \in {"bob", "carol"} |-> DMMention]
    /\ ~results.AllMentioned

-----------------------------------------------------------------------------
IsThreadRoot(c, threadPost) == threadPost.Id = c.parentPostList.Order[1]

\* the thread post notifies its author, in the words of the claim
NotifiesAuthor(c, threadPost) ==
    LET comments == Prop(PostProfile(threadPost.UserId).NotifyProps, "comments")
    IN  /\ threadPost.UserId \in c.profileMap
        /\ ~IsCRTEnabledForUser(c, threadPost.UserId)
        /\ comments = "any" \/ (comments = "root" /\ IsThreadRoot(c, threadPost))
        /\ ~(IsThreadRoot(c, threadPost) /\ threadPost.IsFromOAuthBot)

\* the types the thread posts of user u call for
ThreadTypes(c, u) ==
    {IF IsThreadRoot(c, tp) THEN CommentMention ELSE ThreadMention :
        tp \in {x \in Range(c.parentPostList.Posts) :
                    x.UserId = u /\ NotifiesAuthor(c, x)}}

MaxOf(S) == CHOOSE x \in S : \A y \in S : y <= x

\* C23: for a reply with a loaded thread, the thread step leaves for every user
\* the highest of the type the user held before and the types of the user's
\* thread posts that notify: Comment for the thread root, Thread for any other
\* post, where a post notifies when its author has a profile, has collapsed
\* threads off and has comment notifications `any` (or `root`, on the root
\* post), and the root post of an OAuth bot does not. A user who wrote the
\* root and a reply ends at Comment type or higher in whatever order the posts
\* are visited; a user without such a post keeps what the user had.
C23_ThreadEnrichment ==
    [][(op'.name = "Thread" /\ ctx.post.RootId # "" /\ ~ctx.parentPostList.isNil) =>
        results'.Mentions =
            [u \in DOMAIN results.Mentions
                    \cup {x \in ctx.profileMap : ThreadTypes(ctx, x) # {}} |->
                MaxOf(ThreadTypes(ctx, u)
                      \cup (IF HasMention(results, u) THEN {results.Mentions[u]}
                            ELSE {}))]]_vars

\* C23 witness: bob wrote the root and a reply of the thread, the scan recorded
\* nobody, and the thread step left bob at Comment type and nobody else
C23_Witness ==
    /\ op.name = "Thread"
    /\ ctx.post.RootId = "root"
    /\ ~ctx.parentPostList.isNil
    /\ Cardinality({i \in DOMAIN ctx.parentPostList.Posts :
                        ctx.parentPostList.Posts[i].UserId = "bob"}) = 2
    /\ ctx.parentPostList.Posts[1].UserId = "bob"
    /\ IsThreadRoot(ctx, ctx.parentPostList.Posts[1])
    /\ results.Mentions = [u \in {"bob"} |-> CommentMention]

-----------------------------------------------------------------------------
\* the three cases in which the post may not broadcast to the channel
ChannelMentionsNotAllowed(c) ==
    \/ ~c.hasPermission
    \/ c.post.Type \in {"system_header_change", "system_purpose_change"}
    \/ Cardinality(c.profileMap) >= c.maxNotifications

\* C24: for a post that may not broadcast to the channel (the author lacks the
\* permission, the post is a header or purpose change, or the channel has as
\* many profiles as the cap or more), the keyword index built for the post
\* holds none of @here, @channel and @all, no user is recorded at Channel
\* type by the scan or by any later step, and a message holding the three
\* words still sets HereMentioned, ChannelMentioned and AllMentioned.
C24_NoBroadcastWhenNotAllowed ==
    (ctx.channel.Type # "D" /\ pc # "post" /\ ChannelMentionsNotAllowed(ctx)) =>
        /\ ~allow
        /\ DOMAIN keywords \cap systemMentions = {}
        /\ \A u \in DOMAIN results.Mentions : results.Mentions[u] # ChannelMention
        /\ (pc # "explicit" /\ ctx.post.Message = T_allHereChannel) =>
              /\ results.HereMentioned
              /\ results.ChannelMentioned
              /\ results.AllMentioned

\* C24 witness: a channel at the cap, an ordinary post of a permitted author
\* reading `@all @here @channel`; the scan set the three flags and recorded
\* nobody
C24_Witness ==
    /\ pc = "gm"
    /\ ctx.channel.Type = "O"
    /\ ctx.hasPermission
    /\ ctx.post.Type = ""
    /\ Cardinality(ctx.profileMap) = ctx.maxNotifications
    /\ ctx.post.Message = T_allHereChannel
    /\ results.Mentions = EmptyMap
    /\ results.HereMentioned /\ results.ChannelMentioned /\ results.AllMentioned
    /\ (<<"@">> \o S_carol) \in DOMAIN keywords

-----------------------------------------------------------------------------
\* C25: whatever texts ProcessText has scanned into the accumulator, every
\* element of OtherPotentialMentions is a non-empty string; the tokens `@`,
\* `@.`, `@-` and `@:` in particular leave no empty element.
C25_PotentialMentionsNonEmpty ==
    \A i \in DOMAIN results.OtherPotentialMentions :
        results.OtherPotentialMentions[i] # T_empty

-----------------------------------------------------------------------------
(* Service.SendUserNotification, service.go:27-79 *)

\* the longest notification_services value tried
MaxServicesLen == 4

PluginCategory == "plugin_com.mattermost.plugin-shoutrrr"

ServicesName == "notification_services"

\* model.Preference, the fields that are read
Preference(category, name, value) ==
    [Category |-> category, Name |-> name, Value |-> value]

RECURSIVE FindServices(_)
\* service.go:36-42: the value of the first notification_services preference
FindServices(preferences) ==
    IF preferences = <<>> THEN T_empty
    ELSE IF /\ Head(preferences).Category = PluginCategory
            /\ Head(preferences).Name = ServicesName
         THEN Head(preferences).Value
         ELSE FindServices(Tail(preferences))

RECURSIVE Split(_, _)
\* strings.Split(s, sep) for a separator of one character
Split(s, sep) ==
    IF \A i \in DOMAIN s : s[i] # sep THEN <<s>>
    ELSE LET i == CHOOSE k \in DOMAIN s :
                    s[k] = sep /\ \A j \in 1..(k - 1) : s[j] # sep
         IN  <<SubSeq(s, 1, i - 1)>> \o Split(SubSeq(s, i + 1, Len(s)), sep)

\* unicode.IsSpace for the characters of the inputs
IsSpace(c) == c \in {" ", "\t", "\n", "\r"}

RECURSIVE TrimSpace(_)
\* strings.TrimSpace
TrimSpace(s) ==
    IF s = <<>> THEN s
    ELSE IF IsSpace(Head(s)) THEN TrimSpace(Tail(s))
    ELSE IF IsSpace(Last(s)) THEN TrimSpace(SubSeq(s, 1, Len(s) - 1))
    ELSE s

\* service.go:51-54
SplitServices(servicesStr) ==
    LET services == Split(servicesStr, ",")
    IN  [i \in DOMAIN services |-> TrimSpace(services[i])]

\* a plausible slip: the loop is left at the first failed send
RestAfterSendAbort(services, sent) ==
    IF sent THEN Tail(services) ELSE <<>>

\* service.go:57-73: the services the range still visits after a send,
\* whether it succeeded or not
RestAfterSend(services, sent) == Tail(services)

\* the error value returned: nil, the error of GetForUser, or the joined
\* messages of the failed sends
NilError == [isNil |-> TRUE, from |-> "none", errs |-> <<>>]

PreferenceError == [isNil |-> FALSE, from |-> "GetForUser", errs |-> <<>>]

\* service.go:75-78
SendResult(errs) ==
    IF Len(errs) > 0 THEN [isNil |-> FALSE, from |-> "Send", errs |-> errs]
    ELSE NilError

\* inputs: the preference value, the preferences of the user, and whether
\* GetForUser fails
ServiceStrings == SeqsUpTo({"a", "b", " ", "\t", ","}, MaxServicesLen)

OtherPreference == Preference("display_settings", "use_military_time", <<"a">>)

PreferenceLists ==
    {<<>>, <<OtherPreference>>,
     <<Preference("display_settings", ServicesName, <<"a">>)>>,
     <<Preference(PluginCategory, "other", <<"a">>)>>,
     <<Preference(PluginCategory, ServicesName, <<"a">>),
       Preference(PluginCategory, ServicesName, <<"b">>)>>}
    \cup {<<OtherPreference, Preference(PluginCategory, ServicesName, v)>> :
            v \in ServiceStrings}

NotifyInputs ==
    {[err |-> TRUE, preferences |-> <<>>]}
    \cup {[err |-> FALSE, preferences |-> l] : l \in PreferenceLists}

\* ctx is the call, pending the services not yet visited, processed the
\* sends attempted with their outcome, buf the errs slice
InitNotify ==
    /\ keywords = NoKeywords
    /\ profiles = <<>>
    /\ groups = <<>>
    /\ allow = FALSE
    /\ results = NewResults
    /\ results2 = NewResults
    /\ pc = "notify"
    /\ pending = <<>>
    /\ nops = 0
    /\ post = NoPost
    /\ fields = <<>>
    /\ nodes = <<>>
    /\ ni = 0
    /\ buf = <<>>
    /\ processed = <<>>
    /\ ctx \in NotifyInputs
    /\ op = [name |-> "init"]

\* service.go:29-33
PreferenceErrorStep ==
    /\ pc = "notify"
    /\ ctx.err
    /\ pc' = "returned"
    /\ op' = [name |-> "return", arg |-> PreferenceError]
    /\ UNCHANGED <<keywords, profiles, groups, allow, results, results2, pending, nops>>
    /\ UNCHANGED <<post, fields, nodes, ni, buf, processed, ctx>>

\* service.go:35-49
NoServicesStep ==
    /\ pc = "notify"
    /\ ~ctx.err
    /\ FindServices(ctx.preferences) = T_empty
    /\ pc' = "returned"
    /\ op' = [name |-> "return", arg |-> NilError]
    /\ UNCHANGED <<keywords, profiles, groups, allow, results, results2, pending, nops>>
    /\ UNCHANGED <<post, fields, nodes, ni, buf, processed, ctx>>

\* service.go:35-56
SplitServicesStep ==
    /\ pc = "notify"
    /\ ~ctx.err
    /\ FindServices(ctx.preferences) # T_empty
    /\ pending' = SplitServices(FindServices(ctx.preferences))
    /\ pc' = "send"
    /\ op' = [name |-> "Split"]
    /\ UNCHANGED <<keywords, profiles, groups, allow, results, results2, nops>>
    /\ UNCHANGED <<post, fields, nodes, ni, buf, processed, ctx>>

\* service.go:57-60
SkipEmptyStep ==
    /\ pc = "send"
    /\ pending # <<>>
    /\ Head(pending) = T_empty
    /\ pending' = Tail(pending)
    /\ op' = [name |-> "continue"]
    /\ UNCHANGED <<keywords, profiles, groups, allow, results, results2, pc, nops>>
    /\ UNCHANGED <<post, fields, nodes, ni, buf, processed, ctx>>

\* service.go:62-73: s.router.Send succeeds or fails
SendStep ==
    /\ pc = "send"
    /\ pending # <<>>
    /\ Head(pending) # T_empty
    /\ \E sent \in BOOLEAN :
        /\ processed' = Append(processed, [service |-> Head(pending), sent |-> sent])
        /\ buf' = IF sent THEN buf ELSE Append(buf, Head(pending))
        /\ pending' = RestAfterSend(pending, sent)
        /\ op' = [name |-> "Send", arg |-> sent]
    /\ UNCHANGED <<keywords, profiles, groups, allow, results, results2, pc, nops>>
    /\ UNCHANGED <<post, fields, nodes, ni, ctx>>

\* service.go:75-78
ReturnStep ==
    /\ pc = "send"
    /\ pending = <<>>
    /\ pc' = "returned"
    /\ op' = [name |-> "return", arg |-> SendResult(buf)]
    /\ UNCHANGED <<keywords, profiles, groups, allow, results, results2, pending, nops>>
    /\ UNCHANGED <<post, fields, nodes, ni, buf, processed, ctx>>

NextNotify ==
    \/ PreferenceErrorStep \/ NoServicesStep \/ SplitServicesStep
    \/ SkipEmptyStep \/ SendStep \/ ReturnStep

SpecNotify == InitNotify /\ [][NextNotify]_vars

\* the notification_services value of the user: that of the first such
\* preference, empty without one
ConfiguredServices(preferences) ==
    LET hits == {i \in DOMAIN preferences :
                    /\ preferences[i].Category = PluginCategory
                    /\ preferences[i].Name = ServicesName}
    IN  IF hits = {} THEN T_empty
        ELSE preferences[CHOOSE i \in hits : \A j \in hits : i <= j].Value

\* the piece of s between two neighbouring separators at positions lo and hi,
\* without the white space at its ends
TrimmedPiece(s, lo, hi) ==
    LET inner == {i \in (lo + 1)..(hi - 1) : ~IsSpace(s[i])}
    IN  IF inner = {} THEN T_empty
        ELSE SubSeq(s, CHOOSE i \in inner : \A j \in inner : i <= j,
                       CHOOSE i \in inner : \A j \in inner : j <= i)

\* the service URLs of a comma-separated value, in list order
ExpectedURLs(s) ==
    LET cuts == {0, Len(s) + 1} \cup {i \in DOMAIN s : s[i] = ","}
        nth(k) == CHOOSE c \in cuts : Cardinality({d \in cuts : d < c}) = k - 1
        pieces == [k \in 1..(Cardinality(cuts) - 1) |->
                      TrimmedPiece(s, nth(k), nth(k + 1))]
    IN  SelectSeq(pieces, LAMBDA p : p # T_empty)

\* C26: when SendUserNotification has returned, the sends it attempted are
\* exactly the non-empty trimmed service URLs of the user's
\* notification_services value, in list order, whatever the outcome of the
\* earlier sends; the error returned is non-nil exactly when reading the
\* preferences failed or a send failed; and without a configured value no
\* send was attempted and nil is returned.
C26_SendUserNotification ==
    pc = "returned" =>
        /\ ~ctx.err =>
              [i \in DOMAIN processed |-> processed[i].service]
                  = ExpectedURLs(ConfiguredServices(ctx.preferences))
        /\ ~op.arg.isNil <=>
              (ctx.err \/ \E i \in DOMAIN processed : ~processed[i].sent)
        /\ (~ctx.err /\ ConfiguredServices(ctx.preferences) = T_empty) =>
              processed = <<>> /\ op.arg.isNil

\* C26 witness: the value `a, b`; the send to `a` failed, the send to `b`
\* was still attempted and succeeded, and an error was returned
C26_Witness ==
    /\ pc = "returned"
    /\ ~ctx.err
    /\ ConfiguredServices(ctx.preferences) = <<"a", ",", " ", "b">>
    /\ processed = <<[service |-> <<"a">>, sent |-> FALSE],
                     [service |-> <<"b">>, sent |-> TRUE]>>
    /\ ~op.arg.isNil

\* C26 witness: nothing configured, nothing sent, nil returned
C26_WitnessNone ==
    /\ pc = "returned"
    /\ ~ctx.err
    /\ ctx.preferences = <<OtherPreference>>
    /\ processed = <<>>
    /\ op.arg.isNil

====
